---- MODULE Spec2Model ----
(***************************************************************************)
(* A model of the Windows agent of akilhassane/pantheon                     *)
(* (src/ThinClient/windows-agent.py): the HTTP POST handlers, the encrypted *)
(* script pipeline (decrypt, materialize, execute, normalize, clean up) and *)
(* the pure text functions the pipeline applies.                            *)
(*                                                                         *)
(* The specifications share the variables:                                 *)
(*   Spec        one POST request, from its arrival to its response;       *)
(*   LiveSpec    Spec with every enabled step of the handler taken;        *)
(*   SpecServe   the server handling the requests in flight one by one;    *)
(*   SpecRepair  the line-continuation repair applied to a bounded text;    *)
(*   SpecLoop    the loop of the repair, one iteration at a time;            *)
(*   SpecCrypto  the two-layout AES-GCM decrypt step on bounded envelopes.  *)
(***************************************************************************)
EXTENDS Integers, Sequences, FiniteSets, TLC

VARIABLES
    pc,       \* position of the request handler
    req,      \* the request being handled: path, Authorization header, body
    loc,      \* the handler's local variables
    fs,       \* the file system: directories and files
    wire,     \* the responses begun on the connection: <<status, body>> records
    log,      \* the lines printed by the agent (tags)
    events,   \* history of the handler's effects, in order
    srv,      \* the server: the requests waiting and the sandboxes of those handled
    fnPc,     \* position of the pure-function specifications
    fnArg,    \* their input
    fnRes     \* their outputs so far

vars == <<pc, req, loc, fs, wire, log, events, srv, fnPc, fnArg, fnRes>>
pipeVars == <<pc, req, loc, fs, wire, log, events, srv>>
fnVars == <<fnPc, fnArg, fnRes>>

(***************************************************************************)
(* Bounds of the model.                                                    *)
(***************************************************************************)
MaxText == 6      \* longest text given to the continuation repair
MaxPlain == 2     \* longest plaintext given to the AEAD round trip
MaxHelpers == 2   \* most helper scripts in one envelope
MaxBatch == 2     \* most sub-commands in one batch command
MaxLoopText == 5  \* longest text given to the repair loop run step by step

(***************************************************************************)
(* Texts: sequences of characters.  The characters that matter to the      *)
(* agent's text handling are the line feed, the carriage return, the       *)
(* backslash and white space; "a" stands for any other character.          *)
(***************************************************************************)
LF == "\n"
CR == "\r"
BS == "\\"
SP == " "
Whitespace == {SP, LF, CR}

RECURSIVE RStrip(_)
\* str.rstrip(): drop trailing white space
RStrip(s) ==
    IF s # <<>> /\ s[Len(s)] \in Whitespace
    THEN RStrip(SubSeq(s, 1, Len(s) - 1))
    ELSE s

RECURSIVE LStrip(_)
\* str.lstrip(): drop leading white space
LStrip(s) ==
    IF s # <<>> /\ s[1] \in Whitespace THEN LStrip(Tail(s)) ELSE s

\* str.strip()
Strip(s) == LStrip(RStrip(s))

RECURSIVE SplitLines(_)
\* str.split('\n'): the list of lines, never empty
SplitLines(s) ==
    IF \A i \in 1..Len(s) : s[i] # LF
    THEN <<s>>
    ELSE LET k == CHOOSE i \in 1..Len(s) :
                     s[i] = LF /\ \A j \in 1..(i - 1) : s[j] # LF
         IN  <<SubSeq(s, 1, k - 1)>> \o SplitLines(SubSeq(s, k + 1, Len(s)))

RECURSIVE JoinLines(_)
\* '\n'.join(lines)
JoinLines(ls) ==
    IF ls = <<>> THEN <<>>
    ELSE IF Len(ls) = 1 THEN ls[1]
    ELSE ls[1] \o <<LF>> \o JoinLines(Tail(ls))

RECURSIVE ReplaceCRLF(_)
\* str.replace('\r\n', '\n')
ReplaceCRLF(s) ==
    IF s = <<>> THEN <<>>
    ELSE IF Len(s) >= 2 /\ s[1] = CR /\ s[2] = LF
    THEN <<LF>> \o ReplaceCRLF(SubSeq(s, 3, Len(s)))
    ELSE <<s[1]>> \o ReplaceCRLF(Tail(s))

\* str.replace('\r', '\n')
ReplaceCR(s) == [i \in 1..Len(s) |-> IF s[i] = CR THEN LF ELSE s[i]]

\* the two replacements applied to a decrypted script
NormalizeLineEndings(s) == ReplaceCR(ReplaceCRLF(s))

\* line.rstrip().endswith('\\')
EndsWithBackslash(line) ==
    LET r == RStrip(line) IN r # <<>> /\ r[Len(r)] = BS

RECURSIVE SkipBlank(_, _)
\* while i < len(lines) and lines[i].strip() == '': i += 1   (i is 1-based here)
SkipBlank(lines, i) ==
    IF i <= Len(lines) /\ Strip(lines[i]) = <<>>
    THEN SkipBlank(lines, i + 1)
    ELSE i

RECURSIVE FixLinesNoConsume(_, _, _)
\* a loop that appends the next non-blank line and then visits it again
FixLinesNoConsume(lines, i, fixed) ==
    IF i > Len(lines) THEN fixed
    ELSE IF EndsWithBackslash(lines[i])
    THEN LET j == SkipBlank(lines, i + 1)
         IN  IF j <= Len(lines)
             THEN FixLinesNoConsume(lines, j,
                           Append(fixed, RStrip(lines[i]) \o <<LF>> \o lines[j]))
             ELSE FixLinesNoConsume(lines, j, Append(fixed, RStrip(lines[i])))
    ELSE FixLinesNoConsume(lines, i + 1, Append(fixed, lines[i]))

RECURSIVE FixLines(_, _, _)
\* the while loop over the lines; i is the 1-based index of the next line
FixLines(lines, i, fixed) ==
    IF i > Len(lines) THEN fixed
    ELSE IF EndsWithBackslash(lines[i])
    THEN LET j == SkipBlank(lines, i + 1)
         IN  IF j <= Len(lines)
             THEN FixLines(lines, j + 1,
                           Append(fixed, RStrip(lines[i]) \o <<LF>> \o lines[j]))
             ELSE FixLines(lines, j, Append(fixed, RStrip(lines[i])))
    ELSE FixLines(lines, i + 1, Append(fixed, lines[i]))

\* the line-continuation repair of a script text
RepairContinuations(s) == JoinLines(FixLines(SplitLines(s), 1, <<>>))

(***************************************************************************)
(* Byte strings and AES-GCM.  A byte is one of six values; a key and an iv *)
(* are byte strings of their real lengths.  AESGCM is the cryptography     *)
(* library's class: the key stream is added to the plaintext byte by byte, *)
(* the 16-byte tag is computed from the key, the iv and the ciphertext,    *)
(* and decrypt takes the last 16 bytes of its input as the tag.            *)
(***************************************************************************)
Byte == 0..5
NByte == Cardinality(Byte)
TagLen == 16

\* a byte string of n equal bytes: the keys and ivs of the model
Fill(b, n) == [i \in 1..n |-> b]

\* AESGCM(key) accepts 128-, 192- and 256-bit keys
KeySizeOk(key) == Len(key) \in {16, 24, 32}

\* AESGCM.decrypt accepts nonces of 8 to 128 bytes
NonceSizeOk(iv) == Len(iv) >= 8 /\ Len(iv) <= 128

KeyStream(key, iv, i) == (key[1] + 2 * iv[1] + i + Len(key) + Len(iv)) % NByte

RECURSIVE FoldSlot(_, _, _)
\* the sum of the bytes of ct at the positions j, j + 12, j + 24, ...
FoldSlot(ct, j, acc) ==
    IF j > Len(ct) THEN acc % NByte ELSE FoldSlot(ct, j + 12, acc + ct[j])

\* the authentication tag of a ciphertext under (key, iv)
GcmTag(key, iv, ct) ==
    [i \in 1..TagLen |->
        CASE i = 1 -> (key[1] + Len(key)) % NByte
          [] i = 2 -> (iv[1] + Len(iv)) % NByte
          [] i = 3 -> Len(ct) % NByte
          [] i = 4 -> (Len(ct) \div NByte) % NByte
          [] OTHER -> FoldSlot(ct, i - 4, 0)]

\* AESGCM.encrypt(iv, plain, None) as the sender computes it: <<ct, tag>>
AesGcmEncrypt(key, iv, plain) ==
    LET ct == [i \in 1..Len(plain) |-> (plain[i] + KeyStream(key, iv, i)) % NByte]
    IN  [ct |-> ct, tag |-> GcmTag(key, iv, ct)]

Ok(v) == [ok |-> TRUE, val |-> v]
Raise(e) == [ok |-> FALSE, err |-> e]

\* AESGCM(key).decrypt(iv, data, None): the plaintext, or the exception
AesGcmDecrypt(key, iv, data) ==
    IF ~NonceSizeOk(iv) THEN Raise("ValueError: Nonce must be between 8 and 128 bytes")
    ELSE IF Len(data) < TagLen THEN Raise("InvalidTag")
    ELSE LET n == Len(data) - TagLen
             ct == SubSeq(data, 1, n)
             tag == SubSeq(data, n + 1, Len(data))
         IN  IF tag # GcmTag(key, iv, ct) THEN Raise("InvalidTag")
             ELSE Ok([i \in 1..n |-> (ct[i] + NByte - KeyStream(key, iv, i)) % NByte])

\* the first attempt alone: what a decrypt step without the fallback would do
DecryptStepNoFallback(key, iv, encrypted_data, auth_tag) ==
    [result |-> AesGcmDecrypt(key, iv, encrypted_data \o auth_tag),
     attempts |-> <<"appended">>]

\* a decrypt step that tries the ciphertext alone even after the first
\* attempt has succeeded
DecryptStepBothAlways(key, iv, encrypted_data, auth_tag) ==
    LET first == AesGcmDecrypt(key, iv, encrypted_data \o auth_tag)
        second == AesGcmDecrypt(key, iv, encrypted_data)
    IN  [result |-> IF first.ok THEN first ELSE second,
         attempts |-> <<"appended", "alone">>]

\* the two attempts on the AESGCM object: ciphertext with the tag appended
\* first, and when that raises, the ciphertext alone; the exception of the
\* second attempt is the one that propagates
DecryptStep(key, iv, encrypted_data, auth_tag) ==
    LET first == AesGcmDecrypt(key, iv, encrypted_data \o auth_tag)
        second == AesGcmDecrypt(key, iv, encrypted_data)
    IN  IF first.ok
        THEN [result |-> first, attempts |-> <<"appended">>]
        ELSE [result |-> second, attempts |-> <<"appended", "alone">>]

(***************************************************************************)
(* What a sender puts into the envelope for a plaintext.  layout:          *)
(*   "separate"  ciphertext in the ciphertext field, tag in authTag;       *)
(*   "embedded"  ciphertext with the tag appended in the ciphertext field, *)
(*               authTag empty;                                            *)
(*   "both"      ciphertext with the tag appended, and the tag in authTag  *)
(*               as well.                                                  *)
(* tamper: "none", or one byte of the ciphertext or of the tag changed.    *)
(***************************************************************************)
Layouts == {"separate", "embedded", "both"}
Tampers == {"none", "ct", "tag"}

Flip(s, i) == [s EXCEPT ![i] = (s[i] + 1) % NByte]

Seal(key, iv, plain, layout, tamper) ==
    LET e == AesGcmEncrypt(key, iv, plain)
        ct == IF tamper = "ct" /\ e.ct # <<>> THEN Flip(e.ct, 1) ELSE e.ct
        tag == IF tamper = "tag" \/ (tamper = "ct" /\ e.ct = <<>>)
               THEN Flip(e.tag, TagLen) ELSE e.tag
    IN  CASE layout = "separate" -> [data |-> ct, authTag |-> tag]
          [] layout = "embedded" -> [data |-> ct \o tag, authTag |-> <<>>]
          [] layout = "both" -> [data |-> ct \o tag, authTag |-> tag]

(***************************************************************************)
(* SpecCrypto: the decrypt step applied to a sealed plaintext.             *)
(***************************************************************************)
Plaintexts == UNION {[1..n -> Byte] : n \in 0..MaxPlain}

InitCrypto ==
    /\ fnPc = "sealed"
    /\ \E plain \in Plaintexts, k \in {0, 1}, v \in {0, 1},
          layout \in Layouts, tamper \in Tampers :
          LET key == Fill(k, 32)
              iv == Fill(v, 12)
              s == Seal(key, iv, plain, layout, tamper)
          IN  fnArg = [plain |-> plain, key |-> key, iv |-> iv, layout |-> layout,
                       tamper |-> tamper, data |-> s.data, authTag |-> s.authTag]
    /\ fnRes = <<>>
    /\ pc = "off" /\ req = <<>> /\ loc = <<>> /\ fs = <<>>
    /\ wire = <<>> /\ log = <<>> /\ events = <<>> /\ srv = <<>>

ApplyDecrypt ==
    /\ fnPc = "sealed"
    /\ fnRes' = <<DecryptStep(fnArg.key, fnArg.iv, fnArg.data, fnArg.authTag)>>
    /\ fnPc' = "opened"
    /\ UNCHANGED <<fnArg, pipeVars>>

NextCrypto == ApplyDecrypt

SpecCrypto == InitCrypto /\ [][NextCrypto]_vars

\* C4: the AES-256-GCM encryption of a plaintext P under a 32-byte key and a
\* 12-byte iv, sent in either layout (tag in authTag, or tag appended to the
\* ciphertext field), is decrypted to exactly P.
C4_RoundTrip ==
    (fnPc = "opened" /\ fnArg.tamper = "none"
        /\ Len(fnArg.key) = 32 /\ Len(fnArg.iv) = 12)
        => /\ fnRes[1].result.ok
           /\ fnRes[1].result.val = fnArg.plain

\* a two-byte plaintext sent with the tag appended to the ciphertext and
\* repeated in authTag: the first attempt fails and the fallback returns it
C4_Witness ==
    /\ fnPc = "opened"
    /\ Len(fnArg.key) = 32 /\ Len(fnArg.iv) = 12
    /\ fnArg.tamper = "none"
    /\ fnArg.layout = "both"
    /\ Len(fnArg.plain) = 2
    /\ fnRes[1].attempts = <<"appended", "alone">>
    /\ fnRes[1].result.ok

(***************************************************************************)
(* SpecRepair: the repair applied to a text, then to its own output.       *)
(***************************************************************************)
RepairAlphabet == {"a", BS, SP, LF}

RepairTexts == UNION {[1..n -> RepairAlphabet] : n \in 0..MaxText}

InitRepair ==
    /\ fnPc = "in"
    /\ fnArg \in RepairTexts
    /\ fnRes = <<>>
    /\ pc = "off" /\ req = <<>> /\ loc = <<>> /\ fs = <<>>
    /\ wire = <<>> /\ log = <<>> /\ events = <<>> /\ srv = <<>>

ApplyRepair ==
    /\ fnPc = "in"
    /\ fnRes' = <<RepairContinuations(fnArg)>>
    /\ fnPc' = "once"
    /\ UNCHANGED <<fnArg, pipeVars>>

ApplyRepairAgain ==
    /\ fnPc = "once"
    /\ fnRes' = Append(fnRes, RepairContinuations(fnRes[1]))
    /\ fnPc' = "twice"
    /\ UNCHANGED <<fnArg, pipeVars>>

NextRepair == ApplyRepair \/ ApplyRepairAgain

SpecRepair == InitRepair /\ [][NextRepair]_vars

\* C5: the continuation repair is idempotent: applied to its own output it
\* returns that output unchanged.
C5_RepairIdempotent ==
    fnPc = "twice" => fnRes[2] = fnRes[1]

\* a text with a continued line followed by a blank line has been repaired
\* twice, and the first repair changed it
C5_Witness ==
    /\ fnPc = "twice"
    /\ fnArg = <<"a", BS, SP, LF, LF, "a">>
    /\ fnRes[1] = <<"a", BS, LF, "a">>
    /\ fnRes[1] # fnArg
(***************************************************************************)
(* SpecLoop: the while loop of the repair, one iteration at a time.  i is  *)
(* the index of the code (0-based); trail is the sequence of its values.   *)
(***************************************************************************)
\* an iteration that steps over the next non-blank line without appending it
IterationLosesNext(lines, i, fixed) ==
    LET line == lines[i + 1]
        j == SkipBlank(lines, i + 2)
    IN  IF EndsWithBackslash(line)
        THEN [i |-> IF j <= Len(lines) THEN j ELSE j - 1,
              fixed |-> Append(fixed, RStrip(line))]
        ELSE [i |-> i + 1, fixed |-> Append(fixed, line)]

\* lines 141-152: one iteration of the loop at index i < len(lines)
Iteration(lines, i, fixed) ==
    LET line == lines[i + 1]
        j == SkipBlank(lines, i + 2)
    IN  IF EndsWithBackslash(line)
        THEN IF j <= Len(lines)
             THEN [i |-> j, fixed |-> Append(fixed, RStrip(line) \o <<LF>> \o lines[j])]
             ELSE [i |-> j - 1, fixed |-> Append(fixed, RStrip(line))]
        ELSE [i |-> i + 1, fixed |-> Append(fixed, line)]

LoopTexts == UNION {[1..n -> RepairAlphabet] : n \in 0..MaxLoopText}

InitLoop ==
    /\ fnPc = "loop"
    /\ fnArg \in LoopTexts
    /\ fnRes = [i |-> 0, fixed |-> <<>>, trail |-> <<>>, out |-> <<>>]
    /\ pc = "off" /\ req = <<>> /\ loc = <<>> /\ fs = <<>>
    /\ wire = <<>> /\ log = <<>> /\ events = <<>> /\ srv = <<>>

\* line 140: while i < len(lines), and the body of the loop
Iterate ==
    /\ fnPc = "loop"
    /\ fnRes.i < Len(SplitLines(fnArg))
    /\ \E n \in {Iteration(SplitLines(fnArg), fnRes.i, fnRes.fixed)} :
          fnRes' = [fnRes EXCEPT !.i = n.i, !.fixed = n.fixed,
                                 !.trail = Append(@, n.i)]
    /\ UNCHANGED <<fnPc, fnArg, pipeVars>>

\* line 154: the loop has ended and the lines are joined
JoinFixed ==
    /\ fnPc = "loop"
    /\ fnRes.i >= Len(SplitLines(fnArg))
    /\ fnRes' = [fnRes EXCEPT !.out = JoinLines(fnRes.fixed)]
    /\ fnPc' = "joined"
    /\ UNCHANGED <<fnArg, pipeVars>>

NextLoop == Iterate \/ JoinFixed

\* the loop runs in the handler's thread: an iteration that can be made is made
SpecLoop == InitLoop /\ [][NextLoop]_vars /\ WF_vars(NextLoop)

(***************************************************************************)
(* JSON values.  A dict is a function from its keys to values; every value *)
(* is a record whose field names its type.                                 *)
(***************************************************************************)
JBool(b) == [bool |-> b]
JNum(n) == [num |-> n]
JStr(s) == [str |-> s]        \* a string constant
JText(t) == [text |-> t]      \* a string built from captured output
JNull == [null |-> TRUE]
JList(l) == [list |-> l]
JObj(f) == [obj |-> f]
JHex(b) == [hex |-> b]        \* a string of hex digits, by the bytes it encodes
JName(p) == [name |-> p]      \* a file name, by its path components
JImage(i) == [b64png |-> i]   \* base64 of the PNG encoding of an image

IsObj(v) == DOMAIN v = {"obj"}
Has(d, k) == k \in DOMAIN d

\* Python's truth value of a JSON value
Truthy(v) ==
    CASE DOMAIN v = {"bool"} -> v.bool
      [] DOMAIN v = {"num"} -> v.num # 0
      [] DOMAIN v = {"str"} -> v.str # ""
      [] DOMAIN v = {"text"} -> v.text # <<>>
      [] DOMAIN v = {"null"} -> FALSE
      [] DOMAIN v = {"list"} -> v.list # <<>>
      [] DOMAIN v = {"obj"} -> DOMAIN v.obj # {}
      [] DOMAIN v = {"name"} -> v.name # <<>>
      [] DOMAIN v = {"hex"} -> v.hex # <<>>
      [] OTHER -> TRUE

\* {**a, **b}: the keys of both, b's values winning
Merge(a, b) ==
    [k \in DOMAIN a \cup DOMAIN b |-> IF k \in DOMAIN b THEN b[k] ELSE a[k]]

\* bytes.fromhex(v)
FromHex(v) ==
    IF DOMAIN v = {"hex"} THEN Ok(v.hex)
    ELSE IF DOMAIN v = {"str"} THEN Raise("ValueError: non-hexadecimal number found in fromhex()")
    ELSE Raise("TypeError: fromhex() argument must be str")

\* bytes.decode('utf-8'): byte 5 stands for a byte that is not valid UTF-8
Utf8Char(b) ==
    CASE b = 0 -> "a" [] b = 1 -> LF [] b = 2 -> CR [] b = 3 -> BS [] OTHER -> SP

DecodeUtf8(bytes) ==
    IF \E i \in 1..Len(bytes) : bytes[i] = 5
    THEN Raise("UnicodeDecodeError")
    ELSE Ok([i \in 1..Len(bytes) |-> Utf8Char(bytes[i])])

(***************************************************************************)
(* The file system: a set of directories and a set of files, each a path   *)
(* (a sequence of components) with its content.                            *)
(***************************************************************************)
TmpDir == <<"tmp">>
AgentDir == <<"agent">>
StaleSandbox == <<"tmp", "mcp_script_0">>
SandboxNames == {"mcp_script_1", "mcp_script_2"}

RECURSIVE NormPath(_, _)
\* the path the operating system resolves: ".." leaves a directory
NormPath(parts, acc) ==
    IF parts = <<>> THEN acc
    ELSE IF parts[1] = ".."
    THEN NormPath(Tail(parts), IF acc = <<>> THEN acc ELSE SubSeq(acc, 1, Len(acc) - 1))
    ELSE NormPath(Tail(parts), Append(acc, parts[1]))

\* os.path.join(dir, name): an absolute name (first component "/") replaces dir
PathJoin(dir, name) ==
    IF name # <<>> /\ name[1] = "/" THEN NormPath(Tail(name), <<>>)
    ELSE NormPath(name, dir)

IsPrefix(p, q) == Len(p) <= Len(q) /\ SubSeq(q, 1, Len(p)) = p

FileAt(f, path) == {x \in f.files : x.path = path}
Exists(f, path) == path \in f.dirs \/ FileAt(f, path) # {}

\* an open() that succeeds whatever the path
CanWriteAnywhere(f, path) == TRUE

\* open(path, 'w') can create the file: its directory exists, it is no directory
CanWrite(f, path) ==
    /\ path # <<>>
    /\ path \notin f.dirs
    /\ SubSeq(path, 1, Len(path) - 1) \in f.dirs

\* a write that leaves a file that is already there as it is
WriteFileKeepsExisting(f, path, content) ==
    IF FileAt(f, path) # {} THEN f
    ELSE [f EXCEPT !.files = @ \cup {[path |-> path, content |-> content]}]

WriteFile(f, path, content) ==
    [f EXCEPT !.files = {x \in @ : x.path # path}
                            \cup {[path |-> path, content |-> content]}]

\* a removal that empties the directory and leaves it in place
RemoveTreeKeepsDir(f, dir) ==
    [dirs |-> f.dirs,
     files |-> {x \in f.files : ~IsPrefix(dir, x.path)}]

\* shutil.rmtree(dir) when it succeeds
RemoveTree(f, dir) ==
    [dirs |-> {d \in f.dirs : ~IsPrefix(dir, d)},
     files |-> {x \in f.files : ~IsPrefix(dir, x.path)}]

\* the agent's host before the request: its working directory with an image
\* and a text file, the temporary directory, and a sandbox an earlier
\* request left behind
InitFs ==
    [dirs |-> {<<>>, TmpDir, AgentDir, StaleSandbox},
     files |-> {[path |-> AgentDir \o <<"shot.png">>, content |-> [image |-> "pixels"]],
                [path |-> AgentDir \o <<"notes.txt">>, content |-> [chars |-> <<"a">>]],
                [path |-> StaleSandbox \o <<"main.py">>, content |-> [chars |-> <<"a">>]]}]

(***************************************************************************)
(* Requests.                                                               *)
(***************************************************************************)
API_KEY == "k1"

\* the Authorization header: absent, or its first 7 characters and the rest
AuthHeaders ==
    {<<>>, <<"Basic  ", "k1">>, <<"Bearer ", "k2">>, <<"Bearer ", "">>, <<"Bearer ", "k1">>}

\* self.headers.get('Authorization', '') split at index 7
HeaderPrefix(h) == IF h = <<>> THEN "" ELSE h[1]
HeaderRest(h) == IF h = <<>> THEN "" ELSE h[2]

\* a check that looks at the scheme only
AuthorizedSchemeOnly(h) == HeaderPrefix(h) = "Bearer "

\* auth_header.startswith('Bearer ') and auth_header[7:] == API_KEY
Authorized(h) == HeaderPrefix(h) = "Bearer " /\ HeaderRest(h) = API_KEY

EnvKey == Fill(1, 32)
EnvIv == Fill(0, 12)
HelperIv == Fill(1, 12)
\* "a\r\n\\\n\na" and "\\\r\n\na"
MainPlain == <<0, 2, 1, 3, 1, 1, 0>>
HelperPlain == <<3, 2, 1, 1, 0>>
BadUtf8Plain == <<0, 5>>

MainCases ==
    {"separate", "embedded", "both", "tampered", "badutf8", "nokey", "nonhex", "notag"}

\* envelopes sealed under a key or an iv of another length: AES-128 and
\* AES-192 keys, an 8-byte key, a 16-byte iv and a 4-byte iv
SizeCases == {"key16", "key24", "key8", "iv16", "iv4"}

(* the main script's fields of an envelope *)
MainFields(case) ==
    LET plain == IF case = "badutf8" THEN BadUtf8Plain ELSE MainPlain
        layout == CASE case = "embedded" -> "embedded"
                    [] case \in {"both", "notag"} -> "both"
                    [] OTHER -> "separate"
        key == CASE case = "key16" -> Fill(1, 16)
                 [] case = "key24" -> Fill(1, 24)
                 [] case = "key8" -> Fill(1, 8)
                 [] OTHER -> EnvKey
        nonce == CASE case = "iv16" -> Fill(0, 16)
                   [] case = "iv4" -> Fill(0, 4)
                   [] OTHER -> EnvIv
        s == Seal(key, nonce, plain, layout,
                  IF case = "tampered" THEN "ct" ELSE "none")
        all == [encryptedScript |-> JHex(s.data),
                iv |-> IF case = "nonhex" THEN JStr("zz") ELSE JHex(nonce),
                authTag |-> JHex(s.authTag),
                key |-> JHex(key)]
    IN  CASE case = "nokey" -> [k \in DOMAIN all \ {"key"} |-> all[k]]
          [] case = "notag" -> [k \in DOMAIN all \ {"authTag"} |-> all[k]]
          [] OTHER -> all

HelperKinds == {"ok", "baddecrypt", "badwrite", "notdict"}

(* one entry of helperScripts *)
Helper(kind) ==
    LET s == Seal(EnvKey, HelperIv, HelperPlain, "separate",
                  IF kind = "baddecrypt" THEN "tag" ELSE "none")
    IN  IF kind = "notdict" THEN JStr("helper.py")
        ELSE JObj([name |-> JName(IF kind = "badwrite" THEN <<"sub", "h.py">>
                                  ELSE <<"h1.py">>),
                   encryptedContent |-> JHex(s.data),
                   iv |-> JHex(HelperIv),
                   authTag |-> JHex(s.authTag)])

HelperLists == UNION {[1..n -> HelperKinds] : n \in 0..MaxHelpers}

ScriptTypes == {"powershell", "python", "absent"}
\* "main.py", no scriptName, "" and "../x.py"
ScriptNames == {<<"main.py">>, <<"absent">>, <<>>, <<"..", "x.py">>}

Envelope(case, type, name, kinds) ==
    LET base == Merge(MainFields(case),
                      [helperScripts |-> JList([i \in 1..Len(kinds) |-> Helper(kinds[i])]),
                       arguments |-> JList(<<JNum(7)>>)])
        typed == IF type = "absent" THEN base ELSE Merge(base, [type |-> JStr(type)])
    IN  IF name = <<"absent">> THEN typed ELSE Merge(typed, [scriptName |-> JName(name)])

Envelopes ==
    {Envelope(c, t, n, k) : c \in MainCases, t \in ScriptTypes,
                            n \in ScriptNames, k \in HelperLists}

SizedEnvelopes ==
    {Envelope(c, t, <<"main.py">>, <<>>) : c \in SizeCases, t \in {"powershell", "python"}}

\* envelopes whose type is neither 'powershell' nor 'python'
OtherTypeEnvelopes ==
    {Envelope("separate", t, <<"main.py">>, <<"ok">>) : t \in {"bash", "PowerShell"}}

\* envelopes whose scriptName is the name of one of their helpers
CollidingEnvelopes ==
    {Envelope("separate", "python", <<"h1.py">>, k) :
        k \in {<<"ok">>, <<"ok", "ok">>, <<"baddecrypt", "ok">>}}

\* a request body: no Content-Length, no bytes, bytes that are no JSON, or JSON
EncryptedBodies ==
    {[kind |-> "nolength"], [kind |-> "empty"], [kind |-> "garbage"],
     [kind |-> "json", val |-> JList(<<>>)]}
        \cup {[kind |-> "json", val |-> JObj(e)] : e \in Envelopes \cup SizedEnvelopes \cup CollidingEnvelopes
                        \cup OtherTypeEnvelopes}

\* the sub-commands of a batch: two clicks (one without its y), a position
\* query, an unknown command, an entry that is no object, an entry without a
\* command, and a nested batch
Click == JObj([command |-> JStr("mouse_click"),
               args |-> JObj([x |-> JNum(100), y |-> JNum(200)])])
ClickNoY == JObj([command |-> JStr("mouse_click"), args |-> JObj([x |-> JNum(100)])])
Position == JObj([command |-> JStr("mouse_position")])
Reboot == JObj([command |-> JStr("reboot")])
NestedBatch ==
    JObj([command |-> JStr("batch"),
          args |-> JObj([commands |-> JList(<<Reboot, Position>>)])])

SubCommands ==
    {Click, ClickNoY, Position, Reboot, JStr("mouse_position"),
     JObj([args |-> JObj(<<>>)]), NestedBatch}

Batch(commands) ==
    JObj([command |-> JStr("batch"), args |-> JObj([commands |-> commands])])

BatchLists == UNION {[1..n -> SubCommands] : n \in 0..MaxBatch}

PrimitiveBodies ==
    {[kind |-> "empty"], [kind |-> "garbage"],
     [kind |-> "json", val |-> JList(<<>>)],
     [kind |-> "json", val |-> Batch(JNum(3))],
     [kind |-> "json", val |-> JObj([command |-> JStr("batch")])],
     [kind |-> "json", val |-> JObj([command |-> JStr("mouse_click"),
                                      args |-> JList(<<Click.obj.args>>)])]}
    \cup {[kind |-> "json", val |-> c] : c \in {Click, ClickNoY, Position, Reboot}}
    \cup {[kind |-> "json", val |-> Batch(JList(l))] : l \in BatchLists}

Requests ==
    {[path |-> "/execute-encrypted", auth |-> a, body |-> b] :
        a \in AuthHeaders, b \in EncryptedBodies}
    \cup {[path |-> "/", auth |-> a, body |-> b] :
        a \in AuthHeaders, b \in PrimitiveBodies}

NoLocals ==
    [payload |-> JNull, encrypted_data |-> <<>>, iv |-> <<>>, auth_tag |-> <<>>,
     key |-> <<>>, script_type |-> "", arguments |-> <<>>, script_name |-> <<>>,
     helper_scripts |-> <<>>, decrypted |-> <<>>, script_content |-> <<>>,
     temp_dir |-> <<>>, helper_index |-> 0, proc |-> [kind |-> "none"],
     returned |-> FALSE, result |-> [none |-> JNull], raised |-> ""]

\* one request handled on its own: no other request waits
NoServer == [serving |-> FALSE, queue |-> <<>>, handled |-> <<>>]

Init ==
    /\ pc = "start"
    /\ req \in Requests
    /\ loc = NoLocals
    /\ fs = InitFs
    /\ wire = <<>>
    /\ log = <<>>
    /\ events = <<>>
    /\ srv = NoServer
    /\ fnPc = "off" /\ fnArg = <<>> /\ fnRes = <<>>

Respond(status, body) == Append(wire, [status |-> status, body |-> body])

\* the body of a response whose status line was begun and whose body did not
\* reach the connection
Unwritten == [unwritten |-> TRUE]

\* the authentication of both POST handlers
Authenticate ==
    /\ pc = "start"
    /\ IF Authorized(req.auth)
       THEN /\ pc' = "read"
            /\ UNCHANGED <<wire, log>>
       ELSE /\ wire' = Respond(401, [success |-> JBool(FALSE),
                                     error |-> JStr("Unauthorized")])
            /\ log' = Append(log, "[AUTH] Unauthorized attempt")
            /\ pc' = "done"
    /\ UNCHANGED <<req, loc, fs, events, srv, fnVars>>

\* Content-Length, rfile.read and json.loads, in both handlers' try blocks
ReadBody ==
    /\ pc = "read"
    /\ IF req.body.kind = "nolength"
       THEN /\ loc' = [loc EXCEPT !.raised = "TypeError: int() argument"]
            /\ pc' = "except500"
            /\ UNCHANGED events
       ELSE IF req.body.kind # "json"
       THEN /\ loc' = [loc EXCEPT !.raised = "JSONDecodeError"]
            /\ events' = Append(events, [e |-> "read_body"])
            /\ pc' = "except500"
       ELSE /\ loc' = [loc EXCEPT !.payload = req.body.val]
            /\ events' = Append(events, [e |-> "read_body"])
            /\ pc' = IF req.path = "/execute-encrypted" THEN "extract" ELSE "command"
    /\ UNCHANGED <<req, fs, wire, log, srv, fnVars>>

\* the handlers' except clause: a 500 with the error and the trace.  When the
\* exception came from writing the 200 response, send_response(500) begins a
\* second response on the same connection; the connection is lost, its write
\* raises again and the exception leaves the handler.
Handle500 ==
    /\ pc = "except500"
    /\ IF wire = <<>>
       THEN /\ wire' = Respond(500, [success |-> JBool(FALSE),
                                     error |-> JStr(loc.raised),
                                     trace |-> JStr("Traceback")])
            /\ pc' = "done"
       ELSE /\ wire' = Respond(500, Unwritten)
            /\ pc' = "broken"
    /\ log' = Append(log, "[ERROR]")
    /\ UNCHANGED <<req, loc, fs, events, srv, fnVars>>

\* lines 64-67 and 317-320: send_response(200), the headers, then
\* json.dumps(result) written to wfile, all inside the handler's try block.
\* The write succeeds, or it raises because the client has gone, and then the
\* handler's except clause runs with the 200 status line already sent.
SendResult ==
    /\ pc = "respond"
    /\ \/ /\ wire' = Respond(200, loc.result)
          /\ pc' = "done"
          /\ UNCHANGED loc
       \/ /\ wire' = Respond(200, Unwritten)
          /\ loc' = [loc EXCEPT !.raised = "OSError: write"]
          /\ pc' = "except500"
    /\ UNCHANGED <<req, fs, log, events, srv, fnVars>>

\* lines 340-343: args given as a dict, as a list whose first element is a
\* dict, or as anything else
NormalizeArgs(args) ==
    IF IsObj(args) THEN args.obj
    ELSE IF DOMAIN args = {"list"} /\ Len(args.list) > 0 /\ IsObj(args.list[1])
    THEN args.list[1].obj
    ELSE <<>>

\* the outcome of one command: the dict it returns or the exception it
\* raises, and the driver calls it made
Done(dict, calls) == [ok |-> TRUE, val |-> dict, calls |-> calls]
Failed(e, calls) == [ok |-> FALSE, err |-> e, calls |-> calls]

\* line 450: the entry appended for a sub-command that raised
FailureEntry(e) == [success |-> JBool(FALSE), error |-> JStr(e)]

\* a batch loop that a failing sub-command ends
SubCommandFailureAborts(r) == ~r.ok

\* whether the exception of a sub-command leaves the batch loop: the except
\* clause of lines 449-450 catches it, so it never does
SubCommandFailureEscapes(r) == FALSE

RECURSIVE Execute(_, _, _)
RECURSIVE BatchResults(_, _, _)

\* lines 445-450: the loop over the sub-commands from index i on
BatchResults(commands, i, driverOk) ==
    IF i > Len(commands) THEN Done(<<>>, <<>>)
    ELSE LET cmd == commands[i]
             r == IF ~IsObj(cmd) THEN Failed("TypeError: indices", <<>>)
                  ELSE IF ~Has(cmd.obj, "command") THEN Failed("KeyError: command", <<>>)
                  ELSE Execute(cmd.obj.command,
                               IF Has(cmd.obj, "args") THEN cmd.obj.args ELSE JObj(<<>>),
                               driverOk)
             rest == BatchResults(commands, i + 1, driverOk)
         IN  IF SubCommandFailureEscapes(r) THEN Failed(r.err, r.calls)
             ELSE IF ~rest.ok THEN Failed(rest.err, r.calls \o rest.calls)
             ELSE Done(<<JObj(IF r.ok THEN r.val ELSE FailureEntry(r.err))>> \o rest.val,
                       r.calls \o rest.calls)

\* execute_command(command, args) for the commands of the model; driverOk
\* tells whether pyautogui.click returns or raises its fail-safe exception
Execute(command, rawArgs, driverOk) ==
    LET args == NormalizeArgs(rawArgs)
    IN  IF command = JStr("mouse_click")
        THEN IF ~(Has(args, "x") /\ Has(args, "y")) THEN Failed("KeyError", <<>>)
             ELSE IF ~driverOk THEN Failed("FailSafeException", <<"click">>)
             ELSE Done([success |-> JBool(TRUE),
                        message |-> JStr("Clicked left at (x, y)"),
                        x |-> args.x, y |-> args.y], <<"click">>)
        ELSE IF command = JStr("mouse_position")
        THEN Done([success |-> JBool(TRUE),
                   coordinates |-> JObj([x |-> JNum(1), y |-> JNum(2)]),
                   message |-> JStr("Mouse at (x, y)")], <<"position">>)
        ELSE IF command = JStr("batch")
        THEN LET commands == IF Has(args, "commands") THEN args.commands ELSE JList(<<>>)
             IN  IF DOMAIN commands # {"list"} THEN Failed("TypeError: not iterable", <<>>)
                 ELSE LET b == BatchResults(commands.list, 1, driverOk)
                      IN  IF ~b.ok THEN b
                          ELSE Done([success |-> JBool(TRUE),
                                     results |-> JList(b.val),
                                     count |-> JNum(Len(b.val))], b.calls)
        ELSE Failed("ValueError: Unknown command", <<>>)

\* lines 310-315: command and args taken from the request, then execute_command
ExecuteCommand ==
    /\ pc = "command"
    /\ \E driverOk \in BOOLEAN :
        \E r \in {IF ~IsObj(loc.payload) THEN Failed("AttributeError: get", <<>>)
                   ELSE Execute(IF Has(loc.payload.obj, "command")
                                THEN loc.payload.obj.command ELSE JNull,
                                IF Has(loc.payload.obj, "args")
                                THEN loc.payload.obj.args ELSE JObj(<<>>),
                                driverOk)} :
            /\ events' = events \o [i \in 1..Len(r.calls) |->
                                        [e |-> "pyautogui", call |-> r.calls[i]]]
            /\ IF r.ok
               THEN /\ loc' = [loc EXCEPT !.result = r.val, !.returned = TRUE]
                    /\ pc' = "respond"
               ELSE /\ loc' = [loc EXCEPT !.raised = r.err]
                    /\ pc' = "except500"
    /\ UNCHANGED <<req, fs, wire, log, srv, fnVars>>

(***************************************************************************)
(* The child process, as the environment decides it: it exits with a       *)
(* status, a stdout and a stderr, or it runs out of time, or it cannot be  *)
(* started.  A stdout is a text in which a whole JSON document is one      *)
(* token; JsonDocs tells what json.loads returns for each document.        *)
(***************************************************************************)
Shot == JName(<<"shot.png">>)      \* an image in the agent's directory
Gone == JName(<<"gone.png">>)      \* no such file
Notes == JName(<<"notes.txt">>)    \* a file that is no image
Folder == JName(<<"..", "tmp">>)   \* a directory

JsonDocs ==
    {[src |-> "{}", val |-> JObj(<<>>)],
     [src |-> "{path:shot}", val |-> JObj([path |-> Shot])],
     [src |-> "{path:gone}", val |-> JObj([path |-> Gone])],
     [src |-> "{success:true}", val |-> JObj([success |-> JBool(TRUE)])],
     [src |-> "{success:true,value:42}",
      val |-> JObj([success |-> JBool(TRUE), value |-> JNum(42)])],
     [src |-> "{success:true,path:shot}",
      val |-> JObj([success |-> JBool(TRUE), path |-> Shot])],
     [src |-> "{success:true,path:gone}",
      val |-> JObj([success |-> JBool(TRUE), path |-> Gone])],
     [src |-> "{success:true,path:notes}",
      val |-> JObj([success |-> JBool(TRUE), path |-> Notes])],
     [src |-> "{success:true,path:dir}",
      val |-> JObj([success |-> JBool(TRUE), path |-> Folder])],
     [src |-> "{success:true,path:''}",
      val |-> JObj([success |-> JBool(TRUE), path |-> JName(<<>>)])],
     [src |-> "{success:1,path:shot}",
      val |-> JObj([success |-> JNum(1), path |-> Shot])],
     [src |-> "{success:true,path:shot,screenshot:old}",
      val |-> JObj([success |-> JBool(TRUE), path |-> Shot,
                    screenshot |-> JStr("old")])],
     [src |-> "{success:true,screenshot:old}",
      val |-> JObj([success |-> JBool(TRUE), screenshot |-> JStr("old")])],
     [src |-> "{success:false}", val |-> JObj([success |-> JBool(FALSE)])],
     [src |-> "{success:false,path:shot}",
      val |-> JObj([success |-> JBool(FALSE), path |-> Shot])],
     [src |-> "{success:false,error:e}",
      val |-> JObj([success |-> JBool(FALSE), error |-> JStr("e")])],
     [src |-> "{value:42}", val |-> JObj([value |-> JNum(42)])],
     [src |-> "42", val |-> JNum(42)],
     [src |-> "null", val |-> JNull],
     [src |-> "[1]", val |-> JList(<<JNum(1)>>)]}

DocSources == {d.src : d \in JsonDocs}
DocValue(src) == (CHOOSE d \in JsonDocs : d.src = src).val

\* json.loads(text): the value of the one document between white space
JsonLoads(text) ==
    LET body == Strip(text)
    IN  IF Len(body) = 1 /\ body[1] \in DocSources
        THEN Ok(DocValue(body[1]))
        ELSE Raise("JSONDecodeError")

Exit(rc, out, err) == [kind |-> "exit", rc |-> rc, stdout |-> out, stderr |-> err]

PlainOuts == {<<>>, <<"h", "i", LF>>, <<SP, "a", SP, "a", LF, LF>>}
StdErrs == {<<>>, <<LF>>, <<SP, "b", LF>>}

Outcomes ==
    {Exit(0, <<src, LF>>, <<>>) : src \in DocSources}
    \cup {Exit(0, <<"a", "{success:true,value:42}">>, <<>>)}
    \cup {Exit(rc, out, err) :
            rc \in {0, 1},
            out \in PlainOuts \cup {<<"{success:true,path:shot}", LF>>},
            err \in StdErrs}
    \cup {[kind |-> "timeout"], [kind |-> "oserror"]}

(***************************************************************************)
(* decrypt_and_execute.                                                    *)
(***************************************************************************)
\* timeout=30 of the inline command and timeout=60 of the interpreter
PowershellTimeout == 30
PythonTimeout == 60

\* an exception that leaves the inner try block without its finally clause
ExceptionSkipsFinally == "respond"

\* where an exception raised inside the inner try block (lines 160-234) goes:
\* to the finally clause of line 235, before the outer except clause
ExceptionInTry == "cleanup"

\* a return that leaves the inner try block without its finally clause
ReturnSkipsFinally == "respond"

\* where a return inside the inner try block (lines 208, 225, 231) goes: to
\* the finally clause of line 235, before the caller gets the value
ReturnInTry == "cleanup"

\* 'Decryption/execution failed: ' + str(e)
JFailed(e) == [failed |-> e]

\* a failure dict that lacks the success field
CaughtNoSuccessField(e) == [error |-> JFailed(e)]

\* a failure dict that also carries an output field
CaughtCarriesOutput(e) ==
    [success |-> JBool(FALSE), error |-> JFailed(e), output |-> JText(<<>>)]

\* the dict the outer except clause returns
Caught(e) == [success |-> JBool(FALSE), error |-> JFailed(e)]

Return(l, d) == [l EXCEPT !.result = d, !.returned = TRUE]

\* payload.get(k), None when absent
Get(p, k) == IF Has(p, k) THEN p[k] ELSE JNull

\* lines 87-94: the values extracted from the payload, or the exception
Extract(payload) ==
    IF ~IsObj(payload) THEN Raise("AttributeError: get")
    ELSE
    LET p == payload.obj
        first == Get(p, "encryptedScript")
        data == FromHex(IF Truthy(first) THEN first ELSE Get(p, "encryptedCommand"))
        iv == IF Has(p, "iv") THEN FromHex(p.iv) ELSE Raise("KeyError: iv")
        tag == IF Has(p, "authTag") THEN FromHex(p.authTag)
               ELSE Raise("KeyError: authTag")
        key == IF Has(p, "key") THEN FromHex(p.key) ELSE Raise("KeyError: decryption")
    IN  IF ~data.ok THEN data
        ELSE IF ~iv.ok THEN iv
        ELSE IF ~tag.ok THEN tag
        ELSE IF ~key.ok THEN key
        ELSE Ok([encrypted_data |-> data.val, iv |-> iv.val, auth_tag |-> tag.val,
                 key |-> key.val,
                 script_type |-> IF Has(p, "type") THEN p.type.str ELSE "python",
                 arguments |-> IF Has(p, "arguments") THEN p.arguments.list ELSE <<>>,
                 script_name |-> IF Has(p, "scriptName") THEN p.scriptName.name
                                 ELSE <<"unknown">>,
                 helper_scripts |-> IF Has(p, "helperScripts")
                                    THEN p.helperScripts.list ELSE <<>>])

ExtractFields ==
    /\ pc = "extract"
    /\ \E x \in {Extract(loc.payload)} :
           IF x.ok
           THEN /\ loc' = [loc EXCEPT !.encrypted_data = x.val.encrypted_data,
                                      !.iv = x.val.iv,
                                      !.auth_tag = x.val.auth_tag,
                                      !.key = x.val.key,
                                      !.script_type = x.val.script_type,
                                      !.arguments = x.val.arguments,
                                      !.script_name = x.val.script_name,
                                      !.helper_scripts = x.val.helper_scripts]
                /\ log' = Append(log, "[DECRYPT] Decrypting script")
                /\ pc' = "decrypt"
           ELSE /\ loc' = Return([loc EXCEPT !.raised = x.err], Caught(x.err))
                /\ log' = Append(log, "[ERROR] Decryption/execution failed")
                /\ pc' = "respond"
    /\ UNCHANGED <<req, fs, wire, events, srv, fnVars>>

\* a dispatch that takes the type without regard to case
IsInlineShellAnyCase(script_type) == script_type \in {"powershell", "PowerShell"}

\* line 112: script_type == 'powershell'
IsInlineShell(script_type) == script_type = "powershell"

\* lines 101-110: AESGCM(key) and the two attempts on the main script
DecryptMain ==
    /\ pc = "decrypt"
    /\ IF ~KeySizeOk(loc.key)
       THEN /\ loc' = Return([loc EXCEPT !.raised = "ValueError: AESGCM key"],
                             Caught("ValueError: AESGCM key"))
            /\ log' = Append(log, "[ERROR] Decryption/execution failed")
            /\ pc' = "respond"
            /\ UNCHANGED events
       ELSE \E d \in {DecryptStep(loc.key, loc.iv, loc.encrypted_data, loc.auth_tag)} :
                /\ events' = Append(events, [e |-> "decrypt", of |-> "main",
                                             attempts |-> d.attempts])
                /\ IF d.result.ok
                   THEN /\ loc' = [loc EXCEPT !.decrypted = d.result.val]
                        /\ log' = Append(log, "[DECRYPT] Decryption successful")
                        /\ pc' = IF IsInlineShell(loc.script_type)
                                 THEN "powershell" ELSE "prepare"
                   ELSE /\ loc' = Return([loc EXCEPT !.raised = d.result.err],
                                         Caught(d.result.err))
                        /\ log' = Append(log, "[ERROR] Decryption/execution failed")
                        /\ pc' = "respond"
    /\ UNCHANGED <<req, fs, wire, srv, fnVars>>

\* an inline command's result that reports success whatever the exit status
PowershellResultAlwaysOk(o) ==
    [success |-> JBool(TRUE),
     output |-> JText(Strip(o.stdout)),
     error |-> IF o.stderr # <<>> THEN JText(Strip(o.stderr)) ELSE JNull]

\* lines 122-126: the dict returned for an inline command that exited
PowershellResult(o) ==
    [success |-> JBool(o.rc = 0),
     output |-> JText(Strip(o.stdout)),
     error |-> IF o.stderr # <<>> THEN JText(Strip(o.stderr)) ELSE JNull]

\* a wait for the child that no timeout ever ends
NeverExpires(timeout) == FALSE

\* subprocess.run(..., timeout=t): t seconds after the start the child is
\* killed and TimeoutExpired is raised, so the call returns control
Expires(timeout) == timeout \in {PowershellTimeout, PythonTimeout}

\* what becomes of the call for an outcome of the child: it returns or raises
\* (TRUE), or the handler waits for ever
Returns(o, timeout) == o.kind = "timeout" => Expires(timeout)

\* lines 112-126: the decrypted text run as one inline PowerShell command
RunPowershell ==
    /\ pc = "powershell"
    /\ \E command \in {DecodeUtf8(loc.decrypted)} :
           IF ~command.ok
           THEN /\ loc' = Return([loc EXCEPT !.raised = command.err], Caught(command.err))
                /\ UNCHANGED events
           ELSE \E o \in Outcomes :
                /\ events' = Append(events,
                       [e |-> "spawn", program |-> "powershell", text |-> command.val,
                        args |-> <<>>, cwd |-> AgentDir, timeout |-> PowershellTimeout,
                        outcome |-> o.kind])
                /\ loc' = IF ~Returns(o, PowershellTimeout)
                          THEN [loc EXCEPT !.proc = o]
                          ELSE IF o.kind = "exit"
                          THEN Return([loc EXCEPT !.proc = o], PowershellResult(o))
                          ELSE Return([loc EXCEPT !.raised = o.kind], Caught(o.kind))
    /\ log' = IF loc'.raised # "" THEN Append(log, "[ERROR] Decryption/execution failed")
              ELSE log
    /\ pc' = IF loc'.returned THEN "respond" ELSE "waiting"
    /\ UNCHANGED <<req, fs, wire, srv, fnVars>>

\* lines 129-154: decode, normalize the line endings, repair the continuations
PrepareScript ==
    /\ pc = "prepare"
    /\ \E text \in {DecodeUtf8(loc.decrypted)} :
           IF text.ok
           THEN \E cleaned \in {NormalizeLineEndings(text.val)} :
                \E repaired \in {RepairContinuations(cleaned)} :
                /\ loc' = [loc EXCEPT !.script_content = repaired]
                /\ pc' = "mkdtemp"
                /\ UNCHANGED log
           ELSE /\ loc' = Return([loc EXCEPT !.raised = text.err], Caught(text.err))
                /\ log' = Append(log, "[ERROR] Decryption/execution failed")
                /\ pc' = "respond"
    /\ UNCHANGED <<req, fs, wire, events, srv, fnVars>>

\* lines 157-158: tempfile.mkdtemp, which may fail
MakeSandbox ==
    /\ pc = "mkdtemp"
    /\ \/ \E n \in SandboxNames :
            LET dir == TmpDir \o <<n>>
            IN  /\ ~Exists(fs, dir)
                /\ fs' = [fs EXCEPT !.dirs = @ \cup {dir}]
                /\ loc' = [loc EXCEPT !.temp_dir = dir, !.helper_index = 1]
                /\ events' = Append(events, [e |-> "mkdtemp", dir |-> dir])
                /\ log' = Append(log, "[HELPER] Created temp directory")
                /\ pc' = "helpers"
       \/ /\ loc' = Return([loc EXCEPT !.raised = "OSError: mkdtemp"],
                           Caught("OSError: mkdtemp"))
          /\ log' = Append(log, "[ERROR] Decryption/execution failed")
          /\ pc' = "respond"
          /\ UNCHANGED <<fs, events>>
    /\ UNCHANGED <<req, wire, srv, fnVars>>

\* lines 164-181 for one helper: the file to write, or the exception that the
\* helper's own except clause catches
HelperFile(l, helper) ==
    LET h == helper.obj
        data == IF Has(h, "encryptedContent") THEN FromHex(h.encryptedContent)
                ELSE Raise("KeyError: encryptedContent")
        iv == IF Has(h, "iv") THEN FromHex(h.iv) ELSE Raise("KeyError: iv")
        tag == IF Has(h, "authTag") THEN FromHex(h.authTag) ELSE Raise("KeyError: authTag")
    IN  IF ~Has(h, "name") THEN [ok |-> FALSE, err |-> "KeyError: name", attempts |-> <<>>]
        ELSE IF ~data.ok THEN [ok |-> FALSE, err |-> data.err, attempts |-> <<>>]
        ELSE IF ~iv.ok THEN [ok |-> FALSE, err |-> iv.err, attempts |-> <<>>]
        ELSE IF ~tag.ok THEN [ok |-> FALSE, err |-> tag.err, attempts |-> <<>>]
        ELSE
        LET d == DecryptStep(l.key, iv.val, data.val, tag.val)
            text == IF d.result.ok THEN DecodeUtf8(d.result.val) ELSE d.result
        IN  IF ~text.ok
            THEN [ok |-> FALSE, err |-> text.err, attempts |-> d.attempts]
            ELSE [ok |-> TRUE, attempts |-> d.attempts,
                  path |-> PathJoin(l.temp_dir, h.name.name),
                  content |-> NormalizeLineEndings(text.val)]

\* a helper loop that gives up at the first helper that fails
HelperFailureAborts(ok) == ~ok

\* whether a failure inside one helper's try block leaves the loop: the
\* except clause of lines 185-186 catches it, so it never does
HelperFailureEscapes(ok) == FALSE

\* lines 162-186: one iteration of the loop over the helper scripts
MaterializeHelper ==
    /\ pc = "helpers"
    /\ loc.helper_index <= Len(loc.helper_scripts)
    /\ LET helper == loc.helper_scripts[loc.helper_index]
           next == [loc EXCEPT !.helper_index = @ + 1]
       IN  IF ~IsObj(helper)
           THEN \* helper['name'] raises, and so does helper.get in the except clause
                /\ loc' = [loc EXCEPT !.raised = "AttributeError: get"]
                /\ pc' = ExceptionInTry
                /\ UNCHANGED <<fs, events, log>>
           ELSE \E f \in {HelperFile(loc, helper)} :
                \E written \in {f.ok /\ CanWrite(fs, f.path)} :
                    /\ events' =
                          events
                          \o (IF f.attempts # <<>>
                              THEN <<[e |-> "decrypt", of |-> "helper",
                                      attempts |-> f.attempts]>>
                              ELSE <<>>)
                          \o (IF written
                              THEN <<[e |-> "write", of |-> "helper", path |-> f.path,
                                      index |-> loc.helper_index,
                                      content |-> f.content]>>
                              ELSE <<>>)
                    /\ fs' = IF written THEN WriteFile(fs, f.path, [chars |-> f.content])
                             ELSE fs
                    /\ log' = Append(log, IF written THEN "[HELPER] Saved helper script"
                                          ELSE "[HELPER] Failed to decrypt/save")
                    /\ IF HelperFailureEscapes(written)
                       THEN /\ loc' = [loc EXCEPT !.raised = "helper failed"]
                            /\ pc' = ExceptionInTry
                       ELSE /\ loc' = next
                            /\ pc' = "helpers"
    /\ UNCHANGED <<req, wire, srv, fnVars>>

\* lines 188-193: the main script written once the helper loop has ended
WriteMain ==
    /\ pc = "helpers"
    /\ loc.helper_index > Len(loc.helper_scripts)
    /\ LET path == PathJoin(loc.temp_dir, loc.script_name)
       IN  IF CanWrite(fs, path)
           THEN /\ fs' = WriteFile(fs, path, [chars |-> loc.script_content])
                /\ events' = Append(events, [e |-> "write", of |-> "main", path |-> path,
                                             index |-> 0,
                                             content |-> loc.script_content])
                /\ log' = Append(log, "[HELPER] Saved main script")
                /\ pc' = "run"
                /\ UNCHANGED loc
           ELSE /\ loc' = [loc EXCEPT !.raised = "OSError: open"]
                /\ pc' = ExceptionInTry
                /\ UNCHANGED <<fs, events, log>>
    /\ UNCHANGED <<req, wire, srv, fnVars>>

\* lines 195-205: python run on the main script from the sandbox directory
RunScript ==
    /\ pc = "run"
    /\ \E o \in Outcomes :
        /\ events' = Append(events,
               [e |-> "spawn", program |-> "python",
                text |-> PathJoin(loc.temp_dir, loc.script_name),
                args |-> loc.arguments, cwd |-> loc.temp_dir, timeout |-> PythonTimeout,
                outcome |-> o.kind])
        /\ IF ~Returns(o, PythonTimeout)
           THEN /\ loc' = [loc EXCEPT !.proc = o]
                /\ pc' = "waiting"
           ELSE IF o.kind = "exit"
           THEN /\ loc' = [loc EXCEPT !.proc = o]
                /\ pc' = "normalize"
           ELSE /\ loc' = [loc EXCEPT !.raised = o.kind]
                /\ pc' = ExceptionInTry
    /\ UNCHANGED <<req, fs, wire, log, srv, fnVars>>

\* lines 208-212: the dict returned for a non-zero exit
FailureResult(o) ==
    [success |-> JBool(FALSE),
     error |-> IF o.stderr # <<>> THEN JText(Strip(o.stderr))
               ELSE JStr("Script execution failed"),
     output |-> JText(Strip(o.stdout))]

\* the file an image path names, relative to the agent's working directory
ImagePath(v) == PathJoin(AgentDir, v.name)

\* an enrichment whose failure replaces the object by an error
AddBase64ScreenshotOrError(f, response) ==
    LET path == Get(response, "path")
        found == IF DOMAIN path = {"name"} THEN FileAt(f, ImagePath(path)) ELSE {}
    IN  IF \E x \in found : DOMAIN x.content = {"image"}
        THEN [none |-> FALSE,
              dict |-> Merge(response,
                  [screenshot |-> JImage((CHOOSE x \in found : TRUE).content.image)])]
        ELSE [none |-> FALSE,
              dict |-> [success |-> JBool(FALSE), error |-> JStr("enrichment failed")]]

\* add_base64_screenshot: the enhanced dict, or None
AddBase64Screenshot(f, response) ==
    LET path == Get(response, "path")
    IN  IF ~Truthy(path) \/ DOMAIN path # {"name"} \/ ~Exists(f, ImagePath(path))
        THEN [none |-> TRUE]
        ELSE LET found == FileAt(f, ImagePath(path))
             IN  IF found = {} \/ \A x \in found : DOMAIN x.content # {"image"}
                 THEN [none |-> TRUE]       \* Image.open raises, caught
                 ELSE [none |-> FALSE,
                       dict |-> Merge(response,
                           [screenshot |->
                               JImage((CHOOSE x \in found : TRUE).content.image)])]

\* an enrichment gate that looks at the path field only
WantsEnrichmentPathOnly(obj) == Has(obj, "path")

\* line 219: output_json.get('success') and 'path' in output_json
WantsEnrichment(obj) == Truthy(Get(obj, "success")) /\ Has(obj, "path")

\* lines 225-228: {'success': True, **output_json}
PassThrough(obj) == Merge([success |-> JBool(TRUE)], obj)

\* lines 214-234 for a zero exit: the dict returned, or the exception, and
\* whether enrichment was invoked
SuccessResult(f, o) ==
    LET parsed == JsonLoads(o.stdout)
    IN  IF ~parsed.ok
        THEN [ok |-> TRUE, enrich |-> FALSE,
              val |-> [success |-> JBool(TRUE), output |-> JText(Strip(o.stdout))]]
        ELSE IF ~IsObj(parsed.val)
        THEN [ok |-> FALSE, enrich |-> FALSE, err |-> "AttributeError: get"]
        ELSE LET obj == parsed.val.obj
                 enhanced == AddBase64Screenshot(f, obj)
             IN  IF WantsEnrichment(obj)
                 THEN [ok |-> TRUE, enrich |-> TRUE,
                       val |-> PassThrough(IF enhanced.none THEN obj ELSE enhanced.dict)]
                 ELSE [ok |-> TRUE, enrich |-> FALSE, val |-> PassThrough(obj)]

\* a normalizer that parses stdout whatever the exit status
ParsesOutputAlways(o) == TRUE

\* line 207: stdout is parsed only after a zero exit
ParsesOutput(o) == o.rc = 0

\* lines 207-234: the result of a child that exited
NormalizeOutput ==
    /\ pc = "normalize"
    /\ LET o == loc.proc
       IN  IF ~ParsesOutput(o)
           THEN /\ \E failure \in {FailureResult(o)} : loc' = Return(loc, failure)
                /\ UNCHANGED <<events, log>>
           ELSE \E r \in {SuccessResult(fs, o)} :
                /\ events' = events \o <<[e |-> "json_loads"]>>
                                \o (IF r.ok /\ r.enrich
                                    THEN <<[e |-> "enrich"]>> ELSE <<>>)
                /\ log' = IF r.ok /\ r.enrich
                          THEN Append(log, "[API-SCRIPT] Screenshot detected")
                          ELSE log
                /\ loc' = IF r.ok THEN Return(loc, r.val)
                          ELSE [loc EXCEPT !.raised = r.err]
    /\ pc' = IF loc'.returned THEN ReturnInTry ELSE ExceptionInTry
    /\ UNCHANGED <<req, fs, wire, srv, fnVars>>

\* a cleanup whose failure is raised to the caller
CleanupErrorPropagates(ok) == ~ok

\* lines 237-242: the failure of rmtree is caught and printed
CleanupErrorEscapes(ok) == FALSE

\* lines 235-249: the finally clause, then the outer except clause when an
\* exception is on its way out
CleanUp ==
    /\ pc = "cleanup"
    /\ \E ok \in BOOLEAN :
        /\ events' = Append(events, [e |-> "rmtree", dir |-> loc.temp_dir, ok |-> ok])
        /\ fs' = IF ok THEN RemoveTree(fs, loc.temp_dir) ELSE fs
        /\ LET failed == ~loc.returned \/ CleanupErrorEscapes(ok)
               why == IF loc.returned THEN "OSError: rmtree" ELSE loc.raised
           IN  /\ loc' = IF failed
                         THEN Return([loc EXCEPT !.raised = why], Caught(why))
                         ELSE loc
               /\ log' = log
                         \o <<IF ok THEN "[HELPER] Cleaned up temp directory"
                              ELSE "[HELPER] Failed to clean up temp directory">>
                         \o (IF failed THEN <<"[ERROR] Decryption/execution failed">>
                             ELSE <<>>)
    /\ pc' = "respond"
    /\ UNCHANGED <<req, wire, srv, fnVars>>

Next ==
    \/ Authenticate
    \/ ReadBody
    \/ Handle500
    \/ ExecuteCommand
    \/ ExtractFields
    \/ DecryptMain
    \/ RunPowershell
    \/ PrepareScript
    \/ MakeSandbox
    \/ MaterializeHelper
    \/ WriteMain
    \/ RunScript
    \/ NormalizeOutput
    \/ CleanUp
    \/ SendResult

Spec == Init /\ [][Next]_vars


(***************************************************************************)
(* The server: HTTPServer.serve_forever takes the waiting requests one at  *)
(* a time and runs the handler of each to its end before the next.         *)
(***************************************************************************)
InFlight == 2     \* requests sent to the agent at once

\* a script name that points into the sandbox an earlier request may have left
IntoFirstSandbox == <<"..", "mcp_script_1", "main.py">>

ServeBodies ==
    {[kind |-> "garbage"],
     [kind |-> "json", val |-> JObj(Envelope("separate", "python", <<"main.py">>, <<"ok">>))],
     [kind |-> "json", val |-> JObj(Envelope("separate", "python", IntoFirstSandbox, <<>>))],
     [kind |-> "json", val |-> JObj(Envelope("separate", "powershell", <<"main.py">>, <<>>))]}

ServeRequests ==
    {[path |-> "/execute-encrypted", auth |-> <<"Bearer ", API_KEY>>, body |-> b] :
        b \in ServeBodies}
    \cup {[path |-> "/", auth |-> <<"Bearer ", API_KEY>>,
           body |-> [kind |-> "json", val |-> Position]]}

NoRequest == [path |-> "", auth |-> <<>>, body |-> [kind |-> "empty"]]

InitServe ==
    /\ pc = "idle"
    /\ req = NoRequest
    /\ loc = NoLocals
    /\ fs = InitFs
    /\ wire = <<>>
    /\ log = <<>>
    /\ events = <<>>
    /\ srv \in {[serving |-> TRUE, queue |-> q, handled |-> <<>>] :
                  q \in [1..InFlight -> ServeRequests]}
    /\ fnPc = "off" /\ fnArg = <<>> /\ fnRes = <<>>

\* serve_forever takes the next waiting request and calls its handler
Accept ==
    /\ pc = "idle"
    /\ srv.queue # <<>>
    /\ req' = Head(srv.queue)
    /\ srv' = [srv EXCEPT !.queue = Tail(@)]
    /\ pc' = "start"
    /\ UNCHANGED <<loc, fs, wire, log, events, fnVars>>

\* the handler has returned or was left by an exception: the connection is
\* closed, and the server remembers the sandbox the request created and
\* whether it is still on disk
Finish ==
    /\ srv.serving
    /\ pc \in {"done", "broken"}
    /\ srv' = [srv EXCEPT !.handled =
                   Append(@, [dir |-> loc.temp_dir,
                              left |-> loc.temp_dir # <<>> /\ Exists(fs, loc.temp_dir)])]
    /\ pc' = "idle"
    /\ req' = NoRequest
    /\ loc' = NoLocals
    /\ wire' = <<>>
    /\ log' = <<>>
    /\ events' = <<>>
    /\ UNCHANGED <<fs, fnVars>>

NextServe ==
    \/ Accept
    \/ Authenticate
    \/ ReadBody
    \/ Handle500
    \/ ExecuteCommand
    \/ ExtractFields
    \/ DecryptMain
    \/ RunPowershell
    \/ PrepareScript
    \/ MakeSandbox
    \/ MaterializeHelper
    \/ WriteMain
    \/ RunScript
    \/ NormalizeOutput
    \/ CleanUp
    \/ SendResult
    \/ Finish

SpecServe == InitServe /\ [][NextServe]_vars

(***************************************************************************)
(* One request of a few kinds, with every enabled step of the handler      *)
(* taken: the handler runs in the server's thread until it returns, so no  *)
(* step is put off for ever.                                               *)
(***************************************************************************)
LiveBodies ==
    ServeBodies
    \cup {[kind |-> "json", val |-> JObj(Envelope(c, t, <<"main.py">>, k))] :
            c \in {"embedded", "tampered", "badutf8"},
            t \in {"python", "powershell"},
            k \in {<<>>, <<"baddecrypt", "ok">>, <<"notdict">>}}

LiveRequests ==
    {[path |-> "/execute-encrypted", auth |-> a, body |-> b] :
        a \in {<<"Bearer ", API_KEY>>, <<"Bearer ", "k2">>}, b \in LiveBodies}
    \cup {[path |-> "/", auth |-> <<"Bearer ", API_KEY>>,
           body |-> [kind |-> "json", val |-> c]] : c \in {Position, Reboot}}

InitLive ==
    /\ pc = "start"
    /\ req \in LiveRequests
    /\ loc = NoLocals
    /\ fs = InitFs
    /\ wire = <<>>
    /\ log = <<>>
    /\ events = <<>>
    /\ srv = NoServer
    /\ fnPc = "off" /\ fnArg = <<>> /\ fnRes = <<>>

LiveSpec == InitLive /\ [][Next]_vars /\ WF_vars(Next)

(***************************************************************************)
(* Vocabulary of the properties.                                           *)
(***************************************************************************)
Encrypted == req.path = "/execute-encrypted"
Answered == pc = "done"
Response == wire[1]

EventsOf(kind) == {i \in 1..Len(events) : events[i].e = kind}
Happened(kind) == EventsOf(kind) # {}
Writes(of) == {i \in EventsOf("write") : events[i].of = of}
Spawns(program) == {i \in EventsOf("spawn") : events[i].program = program}
Logged(line) == {i \in 1..Len(log) : log[i] = line}

\* the request reached the interpreter path and its child exited
ScriptExited == loc.script_type # "powershell" /\ loc.proc.kind = "exit"

\* the JSON value printed by the child, when its stdout is one document
Printed == JsonLoads(loc.proc.stdout)
PrintedObject == Printed.ok /\ IsObj(Printed.val)

\* the request carries the header "Bearer " followed by the configured key
GoodCredential == req.auth = <<"Bearer ", API_KEY>>

\* C1: a POST whose Authorization header is missing, is no Bearer header or
\* carries another credential is answered 401 and nothing else happens: the
\* body is not read, nothing is decrypted, no sandbox is created, nothing is
\* run, whatever the body holds.
C1_UnauthorizedDoesNothing ==
    ~GoodCredential =>
        /\ pc \in {"start", "done"}
        /\ events = <<>>
        /\ fs = InitFs
        /\ loc = NoLocals
        /\ pc = "start" => wire = <<>>
        /\ pc = "done" =>
              wire = <<[status |-> 401,
                        body |-> [success |-> JBool(FALSE),
                                  error |-> JStr("Unauthorized")]]>>

\* a well-formed envelope sent with the wrong credential has been answered
C1_Witness ==
    /\ Answered
    /\ Encrypted
    /\ req.auth = <<"Bearer ", "k2">>
    /\ req.body = [kind |-> "json",
                   val |-> JObj(Envelope("separate", "python", <<"main.py">>, <<"ok">>))]
    /\ Response.status = 401

\* C2 as stated: at the response, the sandbox the request created is gone.
C2_SandboxGoneAtResponse ==
    (Answered /\ loc.temp_dir # <<>>) => ~Exists(fs, loc.temp_dir)

\* C2, amended: once cleanup has run, the sandbox the request created was
\* given to rmtree exactly once, and it exists at the response only if that
\* rmtree failed, which the log records; this holds after a zero exit, a
\* non-zero exit, a timeout and an exception raised after the creation.
C2_SandboxGoneUnlessRmtreeFailed ==
    (pc \in {"respond", "done"} /\ loc.temp_dir # <<>>) =>
        /\ Cardinality(EventsOf("rmtree")) = 1
        /\ \A i \in EventsOf("rmtree") :
              /\ events[i].dir = loc.temp_dir
              /\ events[i].ok => ~Exists(fs, loc.temp_dir)
              /\ events[i].ok =>
                    \A x \in fs.files : ~IsPrefix(loc.temp_dir, x.path)
              /\ ~events[i].ok =>
                    Logged("[HELPER] Failed to clean up temp directory") # {}

\* the child timed out, the sandbox was deleted and the response sent
C2_Witness ==
    /\ Answered
    /\ loc.temp_dir # <<>>
    /\ \E i \in Spawns("python") : events[i].outcome = "timeout"
    /\ Writes("helper") # {}
    /\ \E i \in EventsOf("rmtree") : events[i].ok
    /\ ~Exists(fs, loc.temp_dir)

\* every entry of helperScripts is a JSON object
HelpersAreObjects ==
    \A i \in 1..Len(loc.helper_scripts) : IsObj(loc.helper_scripts[i])

\* the helpers whose decryption, decoding and write succeed in the sandbox
GoodHelpers ==
    {i \in 1..Len(loc.helper_scripts) :
        LET f == HelperFile(loc, loc.helper_scripts[i])
        IN  f.ok /\ CanWrite([fs EXCEPT !.dirs = @ \cup {loc.temp_dir}], f.path)}

MainWritable ==
    CanWrite([fs EXCEPT !.dirs = @ \cup {loc.temp_dir}],
             PathJoin(loc.temp_dir, loc.script_name))

\* the response body that the main script's write and execution determine
MainAloneBody ==
    IF ~MainWritable THEN Caught("OSError: open")
    ELSE LET run == events[CHOOSE i \in Spawns("python") : TRUE]
         IN  IF run.outcome # "exit" THEN Caught(run.outcome)
             ELSE IF loc.proc.rc # 0 THEN FailureResult(loc.proc)
             ELSE LET r == SuccessResult(fs, loc.proc)
                  IN  IF r.ok THEN r.val ELSE Caught(r.err)

LoadableImage(v) ==
    /\ DOMAIN v = {"name"}
    /\ v.name # <<>>
    /\ \E x \in FileAt(fs, ImagePath(v)) : DOMAIN x.content = {"image"}

ZeroExitWithObject == Answered /\ ScriptExited /\ loc.proc.rc = 0 /\ PrintedObject

\* C6 as stated: a truthy success and a path to a loadable image put the
\* encoded image under 'screenshot'; with success falsy or absent, or without
\* path, enrichment is not invoked and the response is the object unmodified.
C6_EnrichmentGating ==
    ZeroExitWithObject =>
        LET obj == Printed.val.obj
        IN  /\ (Truthy(Get(obj, "success")) /\ Has(obj, "path")
                    /\ LoadableImage(obj.path)) =>
                  /\ Has(Response.body, "screenshot")
                  /\ Response.body.screenshot = JImage("pixels")
            /\ (~Truthy(Get(obj, "success")) \/ ~Has(obj, "path")) =>
                  /\ ~Happened("enrich")
                  /\ Response.body = obj

\* C6, amended: with success falsy or absent, or without path, enrichment is
\* not invoked, no image field is added and every field of the object is
\* returned with its value; the response is the object itself when it has a
\* success field, and the object plus success:true when it has none.
C6_EnrichmentGatingAmended ==
    ZeroExitWithObject =>
        LET obj == Printed.val.obj
        IN  /\ Response.status = 200
            /\ (Truthy(Get(obj, "success")) /\ Has(obj, "path")
                    /\ LoadableImage(obj.path)) =>
                  /\ Happened("enrich")
                  /\ Has(Response.body, "screenshot")
                  /\ Response.body.screenshot = JImage("pixels")
            /\ (~Truthy(Get(obj, "success")) \/ ~Has(obj, "path")) =>
                  /\ ~Happened("enrich")
                  /\ \A k \in DOMAIN obj : Response.body[k] = obj[k]
                  /\ DOMAIN Response.body = DOMAIN obj \cup {"success"}
                  /\ Has(obj, "success") => Response.body = obj
                  /\ ~Has(obj, "success") => Response.body.success = JBool(TRUE)

\* the script printed success:false with the path of an image, and the
\* response is that object, without an image
C6_Witness ==
    /\ ZeroExitWithObject
    /\ Printed.val.obj = [success |-> JBool(FALSE), path |-> Shot]
    /\ Response.body = [success |-> JBool(FALSE), path |-> Shot]
    /\ ~Happened("enrich")

\* C7: on the interpreter path a non-zero exit is answered with success:false,
\* the stripped stderr (or 'Script execution failed' when stderr is empty) as
\* error and the stripped stdout as output; stdout is not parsed as JSON and
\* enrichment is not invoked.
C7_NonZeroExit ==
    (ScriptExited /\ loc.proc.rc # 0 /\ pc \in {"cleanup", "respond", "done"}) =>
        /\ loc.returned
        /\ loc.result =
              [success |-> JBool(FALSE),
               error |-> IF loc.proc.stderr = <<>>
                         THEN JStr("Script execution failed")
                         ELSE JText(Strip(loc.proc.stderr)),
               output |-> JText(Strip(loc.proc.stdout))]
        /\ ~Happened("json_loads")
        /\ ~Happened("enrich")
        /\ Answered => Response = [status |-> 200, body |-> loc.result]

\* the script exited 1 with an empty stderr after printing a JSON object
\* that names an image: the response is the generic failure
C7_Witness ==
    /\ Answered
    /\ ScriptExited
    /\ loc.proc = Exit(1, <<"{success:true,path:shot}", LF>>, <<>>)
    /\ Response.body = [success |-> JBool(FALSE),
                        error |-> JStr("Script execution failed"),
                        output |-> JText(<<"{success:true,path:shot}">>)]

\* C8 as stated: after a zero exit with a JSON object on stdout, every field
\* the script printed is in the response with the same value, and the agent
\* adds nothing but the enrichment field and success:true when absent.
C8_PassThrough ==
    ZeroExitWithObject =>
        LET obj == Printed.val.obj
        IN  /\ \A k \in DOMAIN obj : Has(Response.body, k) /\ Response.body[k] = obj[k]
            /\ DOMAIN Response.body \subseteq DOMAIN obj \cup {"success", "screenshot"}
            /\ ~Has(obj, "success") => Response.body.success = JBool(TRUE)

\* C9: with type 'powershell' the decrypted text is run as one inline command
\* and, when it exits, the response is success: (exit status = 0), output: the
\* stripped stdout, error: the stripped stderr, or null when stderr is empty.
C9_PowershellResponse ==
    (loc.script_type = "powershell" /\ loc.proc.kind = "exit") =>
        /\ Cardinality(EventsOf("spawn")) = 1
        /\ \A i \in EventsOf("spawn") :
              /\ events[i].program = "powershell"
              /\ events[i].text = DecodeUtf8(loc.decrypted).val
              /\ events[i].timeout = 30
        /\ loc.result =
              [success |-> JBool(loc.proc.rc = 0),
               output |-> JText(Strip(loc.proc.stdout)),
               error |-> IF loc.proc.stderr = <<>> THEN JNull
                         ELSE JText(Strip(loc.proc.stderr))]
        /\ loc.proc = Exit(0, <<"h", "i", LF>>, <<>>) =>
              loc.result = [success |-> JBool(TRUE), output |-> JText(<<"h", "i">>),
                            error |-> JNull]
        /\ Answered => Response = [status |-> 200, body |-> loc.result]

\* a command that printed "hi" and exited 0 has been answered
C9_Witness ==
    /\ Answered
    /\ loc.script_type = "powershell"
    /\ loc.proc = Exit(0, <<"h", "i", LF>>, <<>>)
    /\ Response.body = [success |-> JBool(TRUE), output |-> JText(<<"h", "i">>),
                        error |-> JNull]

\* the body of the request is not JSON
MalformedJson == req.body.kind \in {"empty", "garbage"}

\* the errors of the taxonomy that decrypt_and_execute meets: a missing or
\* non-hex field, both layouts failing, the main script not decoded or not
\* written, a timeout, a non-zero exit
ListedError ==
    \/ loc.raised \in {"TypeError: fromhex() argument must be str",
                       "ValueError: non-hexadecimal number found in fromhex()",
                       "KeyError: iv", "KeyError: authTag", "KeyError: decryption",
                       "InvalidTag", "UnicodeDecodeError", "OSError: open", "timeout"}
    \/ loc.proc.kind = "exit" /\ loc.proc.rc # 0

AuthorizedEncrypted == Answered /\ Encrypted /\ GoodCredential

\* C10 as stated: every listed error of an authorized request, malformed
\* envelope JSON included, is answered 200 with success:false, and 500 is
\* kept for exceptions outside the list.
C10_ErrorsAnswered200 ==
    AuthorizedEncrypted =>
        /\ (MalformedJson \/ ListedError) =>
              /\ Response.status = 200
              /\ Has(Response.body, "success")
              /\ Response.body.success = JBool(FALSE)
        /\ Response.status = 500 => ~(MalformedJson \/ ListedError)

\* C10, amended: malformed envelope JSON is answered 500, with success:false,
\* the error and the trace in the body; every other listed error is answered
\* 200 with success:false; 500 is produced only when the body could not be
\* read and parsed as JSON.
C10_ErrorsAnsweredAmended ==
    AuthorizedEncrypted =>
        /\ MalformedJson =>
              /\ Response.status = 500
              /\ Response.body.success = JBool(FALSE)
              /\ Has(Response.body, "error") /\ Has(Response.body, "trace")
        /\ (~MalformedJson /\ ListedError) =>
              /\ Response.status = 200
              /\ Has(Response.body, "success")
              /\ Response.body.success = JBool(FALSE)
        /\ Response.status = 500 => req.body.kind # "json"
        /\ Response.status \in {200, 500}

\* both layouts failed on a tampered main script: 200 with success:false
C10_Witness ==
    /\ AuthorizedEncrypted
    /\ loc.raised = "InvalidTag"
    /\ \E i \in EventsOf("decrypt") : events[i].attempts = <<"appended", "alone">>
    /\ Response = [status |-> 200, body |-> Caught("InvalidTag")]

\* the handler has ended: it returned after its response, or an exception
\* left it once the connection was lost
Ended == pc \in {"done", "broken"}

\* C11 as stated: every request receives exactly one response, a status line
\* followed by its body; no second status or body is begun after a first
\* one, whatever is raised once the 200 status has been sent.
C11_ExactlyOneResponse ==
    /\ Len(wire) <= 1
    /\ Ended => Len(wire) = 1 /\ wire[1].body # Unwritten

\* every child was started with the timeout of its kind
TimeoutsFixed ==
    \A i \in EventsOf("spawn") :
        events[i].timeout = IF events[i].program = "powershell" THEN 30 ELSE 60

\* C12: every authorized request to /execute-encrypted reaches the end of its
\* handler with a response begun: no step of decryption, materialization,
\* execution, normalization or cleanup waits for ever; the inline command is
\* given 30 seconds and the interpreter 60, after which the call returns.
C12_EventuallyAnswered ==
    (pc = "start" /\ Encrypted /\ GoodCredential)
        ~> (Ended /\ wire # <<>> /\ TimeoutsFixed)

\* a script that ran out of time has been answered
C12_Witness ==
    /\ Answered
    /\ Encrypted
    /\ GoodCredential
    /\ \E i \in Spawns("python") : events[i].outcome = "timeout" /\ events[i].timeout = 60
    /\ Response.status = 200

\* the sandboxes that earlier requests left on the disk
LeftSandboxes ==
    {srv.handled[k].dir : k \in {k \in 1..Len(srv.handled) : srv.handled[k].left}}

\* the paths the request in hand has written, run, run from, or removed
Touched ==
    {events[i].path : i \in EventsOf("write")}
        \cup {events[i].text : i \in Spawns("python")}
        \cup {events[i].cwd : i \in EventsOf("spawn")}
        \cup {events[i].dir : i \in EventsOf("rmtree")}

\* C13 as stated: of the requests in flight at once, each one that reaches
\* materialization has a sandbox of its own, and none writes into, executes
\* from or deletes the sandbox of another.
C13_SandboxesDisjoint ==
    \A d \in LeftSandboxes :
        /\ loc.temp_dir # d
        /\ \A p \in Touched : ~IsPrefix(d, p)

\* an authorized batch command whose commands are a list
BatchRequest ==
    /\ req.path = "/"
    /\ GoodCredential
    /\ req.body.kind = "json"
    /\ IsObj(req.body.val)
    /\ Has(req.body.val.obj, "command")
    /\ req.body.val.obj.command = JStr("batch")
    /\ Has(req.body.val.obj, "args")
    /\ IsObj(req.body.val.obj.args)
    /\ Has(req.body.val.obj.args.obj, "commands")
    /\ DOMAIN req.body.val.obj.args.obj.commands = {"list"}

BatchCommands == req.body.val.obj.args.obj.commands.list

\* a sub-command that names its command, executed on its own
RunsAlone(c) == IsObj(c) /\ Has(c.obj, "command")
Alone(c, driverOk) ==
    Execute(c.obj.command,
            IF Has(c.obj, "args") THEN c.obj.args ELSE JObj(<<>>), driverOk)

RECURSIVE CallsInOrder(_, _)
CallsInOrder(commands, driverOk) ==
    IF commands = <<>> THEN <<>>
    ELSE (IF RunsAlone(Head(commands)) THEN Alone(Head(commands), driverOk).calls
          ELSE <<>>)
         \o CallsInOrder(Tail(commands), driverOk)

DriverCalls ==
    LET made == SelectSeq(events, LAMBDA x : x.e = "pyautogui")
    IN  [i \in 1..Len(made) |-> made[i].call]

\* C14: the batch command runs its sub-commands in list order and answers
\* success:true with one entry per sub-command, in order, and their number as
\* count; a sub-command that raises gives {success:false, error} at its place
\* and the sub-commands after it are still executed.
C14_BatchInOrder ==
    (Answered /\ BatchRequest) =>
        /\ Response.status = 200
        /\ DOMAIN Response.body = {"success", "results", "count"}
        /\ Response.body.success = JBool(TRUE)
        /\ Response.body.count = JNum(Len(BatchCommands))
        /\ Len(Response.body.results.list) = Len(BatchCommands)
        /\ \E driverOk \in BOOLEAN :
              /\ DriverCalls = CallsInOrder(BatchCommands, driverOk)
              /\ \A i \in 1..Len(BatchCommands) :
                    LET c == BatchCommands[i]
                        entry == Response.body.results.list[i]
                    IN  IF RunsAlone(c)
                        THEN LET r == Alone(c, driverOk)
                             IN  entry = JObj(IF r.ok THEN r.val
                                              ELSE [success |-> JBool(FALSE),
                                                    error |-> JStr(r.err)])
                        ELSE /\ IsObj(entry)
                             /\ DOMAIN entry.obj = {"success", "error"}
                             /\ entry.obj.success = JBool(FALSE)

\* an unknown command followed by a click: the first entry is the failure,
\* the click was made and is the second entry
C14_Witness ==
    /\ Answered
    /\ BatchRequest
    /\ BatchCommands = <<Reboot, Click>>
    /\ DriverCalls = <<"click">>
    /\ Response.body.count = JNum(2)
    /\ Response.body.results.list[1] =
          JObj([success |-> JBool(FALSE), error |-> JStr("ValueError: Unknown command")])
    /\ Response.body.results.list[2].obj.success = JBool(TRUE)

\* C15 as stated: after enrichment every key of the object the script printed
\* is still there with its value, and the image is under a key the object did
\* not have.
C15_EnrichmentPreservesFields ==
    (ZeroExitWithObject /\ Happened("enrich")) =>
        LET obj == Printed.val.obj
            added == {k \in DOMAIN Response.body :
                         Response.body[k] = JImage("pixels")}
        IN  /\ \A k \in DOMAIN obj : Has(Response.body, k) /\ Response.body[k] = obj[k]
            /\ \A k \in added : ~Has(obj, k)

\* C16 as stated: after a zero exit, a stdout that is no JSON object (no JSON,
\* empty, or a number, string, array or null) is answered with success:true
\* and the stripped stdout as output; a zero exit is never answered with a
\* failure.
C16_PlainTextSuccess ==
    (Answered /\ ScriptExited /\ loc.proc.rc = 0) =>
        /\ Response.status = 200
        /\ ~PrintedObject =>
              Response.body = [success |-> JBool(TRUE),
                               output |-> JText(Strip(loc.proc.stdout))]

\* the child of an authorized encrypted request ran out of time
TimedOut ==
    /\ Answered
    /\ Encrypted
    /\ \E i \in EventsOf("spawn") : events[i].outcome = "timeout"

C18_CleanupFailureOnlyLogged ==
    [][(pc = "cleanup" /\ Len(events') = Len(events) + 1
            /\ ~events'[Len(events')].ok) =>
          /\ pc' = "respond"
          /\ fs' = fs
          /\ loc'.returned
          /\ loc.returned => loc' = loc
          /\ ~loc.returned =>
                /\ loc'.raised = loc.raised
                /\ loc'.result = [success |-> JBool(FALSE),
                                  error |-> JFailed(loc.raised)]
          /\ \E i \in 1..Len(log') :
                log'[i] = "[HELPER] Failed to clean up temp directory"]_vars

\* the script printed a JSON object, the deletion failed, and the object was
\* sent with status 200
C18_Witness ==
    /\ Answered
    /\ \E i \in EventsOf("rmtree") : ~events[i].ok
    /\ Exists(fs, loc.temp_dir)
    /\ loc.proc.kind = "exit"
    /\ loc.proc.stdout = <<"{success:true,value:42}", LF>>
    /\ Response = [status |-> 200,
                   body |-> [success |-> JBool(TRUE), value |-> JNum(42)]]

\* C19: a request creates at most one sandbox, and a deletion is attempted
\* exactly once for the sandbox created, never before its creation and never
\* without it, whether the script succeeded, failed, timed out, or an
\* exception was raised by a helper, the main script's write, the execution
\* or the normalization.
C19_OneSandboxOneDeletion ==
    /\ Cardinality(EventsOf("mkdtemp")) = IF loc.temp_dir = <<>> THEN 0 ELSE 1
    /\ Cardinality(EventsOf("rmtree")) <= Cardinality(EventsOf("mkdtemp"))
    /\ \A i \in EventsOf("rmtree") :
          \E j \in EventsOf("mkdtemp") : j < i /\ events[j].dir = events[i].dir
    /\ pc \in {"respond", "except500", "done", "broken"} =>
          Cardinality(EventsOf("rmtree")) = Cardinality(EventsOf("mkdtemp"))

\* a helper entry that is no object raised in the helper loop: the sandbox was
\* created once and one deletion was attempted
C19_Witness ==
    /\ Answered
    /\ loc.raised = "AttributeError: get"
    /\ Cardinality(EventsOf("mkdtemp")) = 1
    /\ Cardinality(EventsOf("rmtree")) = 1
    /\ Spawns("python") = {}

\* both layouts fail on the main script's fields
Undecryptable ==
    /\ loc.key # <<>>
    /\ KeySizeOk(loc.key)
    /\ ~AesGcmDecrypt(loc.key, loc.iv, loc.encrypted_data \o loc.auth_tag).ok
    /\ ~AesGcmDecrypt(loc.key, loc.iv, loc.encrypted_data).ok

\* the decrypted main script is no UTF-8
Undecodable == loc.decrypted # <<>> /\ ~DecodeUtf8(loc.decrypted).ok

\* the interpreter path with an empty scriptName: the path of the main script
\* is the sandbox directory itself, which open() cannot create
Unwritable ==
    /\ loc.key # <<>>
    /\ loc.script_type # "powershell"
    /\ loc.script_name = <<>>

\* C20: when the main script cannot be decrypted, decoded or written, no
\* process is launched and the answer is success:false; when it cannot be
\* decrypted or decoded, no sandbox is created and no helper is decrypted or
\* written.
C20_MainScriptFailureIsFatal ==
    (Undecryptable \/ Undecodable \/ Unwritable) =>
        /\ EventsOf("spawn") = {}
        /\ Writes("main") = {}
        /\ (Undecryptable \/ Undecodable) =>
              /\ loc.temp_dir = <<>>
              /\ EventsOf("mkdtemp") = {}
              /\ EventsOf("write") = {}
              /\ \A i \in EventsOf("decrypt") : events[i].of = "main"
        /\ Answered =>
              /\ Response.status = 200
              /\ Response.body.success = JBool(FALSE)

\* the main script could not be written into the sandbox: a helper was
\* written, nothing was run, the sandbox was removed and the failure sent
C20_Witness ==
    /\ Answered
    /\ Unwritable
    /\ loc.raised = "OSError: open"
    /\ Writes("helper") # {}
    /\ EventsOf("spawn") = {}
    /\ Response.body = [success |-> JBool(FALSE), error |-> JFailed("OSError: open")]

\* the two attempts on the main script's fields, as AESGCM answers them
FirstLayout == AesGcmDecrypt(loc.key, loc.iv, loc.encrypted_data \o loc.auth_tag)
SecondLayout == AesGcmDecrypt(loc.key, loc.iv, loc.encrypted_data)

\* C21: every decryption tries the ciphertext with the tag appended first and
\* the ciphertext alone only when that raised, never after it succeeded; when
\* both attempts on the main script fail, the request fails with the error of
\* the second attempt, and that error alone is in the response.
C21_LayoutOrder ==
    /\ \A i \in EventsOf("decrypt") :
          events[i].attempts \in {<<"appended">>, <<"appended", "alone">>}
    /\ \A i \in EventsOf("decrypt") :
          events[i].of = "main" =>
              /\ FirstLayout.ok <=> events[i].attempts = <<"appended">>
              /\ FirstLayout.ok => loc.decrypted = FirstLayout.val
              /\ (~FirstLayout.ok /\ SecondLayout.ok) => loc.decrypted = SecondLayout.val
              /\ (~FirstLayout.ok /\ ~SecondLayout.ok) =>
                    /\ loc.returned
                    /\ loc.result = Caught(SecondLayout.err)
                    /\ EventsOf("mkdtemp") = {} /\ EventsOf("spawn") = {}
                    /\ Answered => Response = [status |-> 200,
                                               body |-> Caught(SecondLayout.err)]

\* a main script sent with the tag appended and repeated in authTag: the first
\* attempt raised, the second returned the script, and the script was run
C21_Witness ==
    /\ Answered
    /\ ~FirstLayout.ok
    /\ SecondLayout.ok
    /\ \E i \in EventsOf("decrypt") :
          events[i].of = "main" /\ events[i].attempts = <<"appended", "alone">>
    /\ loc.decrypted = MainPlain
    /\ Spawns("python") # {}

\* a line of white space only
Blank(line) == Strip(line) = <<>>

\* line k is a blank line that follows a line ending in a backslash with
\* nothing but blank lines between the two
FollowsContinued(lines, k) ==
    /\ Blank(lines[k])
    /\ \E h \in 1..(k - 1) :
          /\ EndsWithBackslash(lines[h])
          /\ \A m \in (h + 1)..k : Blank(lines[m])

\* the repair in which every line that ends in a backslash is continued: the
\* blank lines that follow it are dropped, so that the next non-blank line
\* comes after it and one newline; the other lines are unchanged
RepairEveryContinued(s) ==
    LET lines == SplitLines(s)
        kept == SelectSeq([k \in 1..Len(lines) |-> k],
                          LAMBDA k : ~FollowsContinued(lines, k))
    IN  JoinLines([j \in 1..Len(kept) |->
                      IF EndsWithBackslash(lines[kept[j]])
                      THEN RStrip(lines[kept[j]])
                      ELSE lines[kept[j]]])

\* C22 as stated: a line is continued exactly when its right-stripped content
\* ends with a backslash; the blank lines that follow such a line are dropped
\* and the next non-blank line is appended to it after a newline; every other
\* line is emitted unchanged.
C22_ContinuedExactlyWhenBackslash ==
    fnPc \in {"once", "twice"} => fnRes[1] = RepairEveryContinued(fnArg)

\* C23: when enrichment is invoked and fails (the path names no existing
\* file, a directory, or a file that is no image), the object the script
\* printed is the response, unmodified, with status 200; no zero exit with a
\* JSON object on stdout is answered with a failure made by the agent.
C23_EnrichmentFailureIsNoFailure ==
    ZeroExitWithObject =>
        LET obj == Printed.val.obj
        IN  /\ Response.status = 200
            /\ loc.raised = ""
            /\ Has(Response.body, "success")
            /\ Has(obj, "success") => Response.body.success = obj.success
            /\ ~Has(obj, "success") => Response.body.success = JBool(TRUE)
            /\ (Happened("enrich") /\ ~LoadableImage(obj.path)) =>
                  /\ Response.body = obj
                  /\ Logged("[ERROR] Decryption/execution failed") = {}

\* the script printed success:true and the path of a text file: enrichment
\* was invoked, the file did not load, and the object is the response
C23_Witness ==
    /\ ZeroExitWithObject
    /\ Happened("enrich")
    /\ Printed.val.obj = [success |-> JBool(TRUE), path |-> Notes]
    /\ Response = [status |-> 200, body |-> [success |-> JBool(TRUE), path |-> Notes]]

\* the steps of the handler that use the sandbox: the writes into it, the
\* child process, the parsing of its output and the enrichment
SandboxUses ==
    EventsOf("write") \cup EventsOf("spawn") \cup EventsOf("json_loads")
        \cup EventsOf("enrich")

\* C24: the sandbox exists while the files are written, while the child runs
\* and while its output is parsed and enriched; its deletion is attempted only
\* after the child has ended or timed out and the result has been computed,
\* and the attempt is over, completed or abandoned, before any response is
\* begun.
C24_SandboxOutlivesChild ==
    /\ (loc.temp_dir # <<>> /\ pc \in {"helpers", "run", "waiting", "normalize", "cleanup"}) =>
          /\ Exists(fs, loc.temp_dir)
          /\ EventsOf("rmtree") = {}
          /\ wire = <<>>
    /\ \A i \in EventsOf("rmtree") :
          /\ events[i].dir = loc.temp_dir
          /\ \A j \in SandboxUses : j < i
          /\ \A j \in Spawns("python") : events[j].outcome \in {"exit", "timeout", "oserror"}
    /\ pc = "cleanup" => (loc.returned \/ loc.raised # "")
    /\ (wire # <<>> /\ loc.temp_dir # <<>>) => Cardinality(EventsOf("rmtree")) = 1

\* the script printed the path of an image: its output was parsed and
\* enriched, then the sandbox was deleted, then the response was sent
C24_Witness ==
    /\ Answered
    /\ loc.temp_dir # <<>>
    /\ Happened("enrich")
    /\ Has(Response.body, "screenshot")
    /\ \E i \in EventsOf("rmtree") :
          /\ events[i].ok
          /\ \A j \in EventsOf("enrich") : j < i
    /\ ~Exists(fs, loc.temp_dir)

\* C25 as stated: whatever is decrypted, written or executed comes from an
\* envelope whose key has 32 bytes and whose iv has 12; an envelope with a key
\* or an iv of another length is answered with a failure.
C25_FixedKeyAndIvLengths ==
    /\ (Happened("decrypt") \/ Happened("write") \/ Happened("spawn")) =>
          /\ Len(loc.key) = 32
          /\ Len(loc.iv) = 12
    /\ (Answered /\ Encrypted /\ GoodCredential /\ loc.key # <<>>
            /\ (Len(loc.key) # 32 \/ Len(loc.iv) # 12)) =>
          Response.body.success = JBool(FALSE)

\* C26 as stated: every file written during materialization, the main script
\* and each helper, lies inside the sandbox of the request, whatever the
\* scriptName and the helper names are, and once the sandbox has been deleted
\* no materialized file is left.
C26_WritesInsideSandbox ==
    /\ \A i \in EventsOf("write") : IsPrefix(loc.temp_dir, events[i].path)
    /\ (\E i \in EventsOf("rmtree") : events[i].ok) =>
          \A i \in EventsOf("write") : FileAt(fs, events[i].path) = {}

\* the text both materializer steps make of a decrypted plaintext
Materialized(bytes) ==
    RepairContinuations(NormalizeLineEndings(DecodeUtf8(bytes).val))

\* the plaintext of the helper at index k of helperScripts
HelperPlaintext(k) ==
    LET h == loc.helper_scripts[k].obj
    IN  DecryptStep(loc.key, h.iv.hex, h.encryptedContent.hex, h.authTag.hex).result.val

\* C27 as stated: the text written for the main script and for every helper
\* is the decrypted plaintext with its line endings normalized, so that it
\* holds no carriage return, and then its continuations repaired.
C27_BothStepsForEveryFile ==
    \A i \in EventsOf("write") :
        /\ \A k \in 1..Len(events[i].content) : events[i].content[k] # CR
        /\ events[i].of = "main" => events[i].content = Materialized(loc.decrypted)
        /\ events[i].of = "helper" =>
              events[i].content = Materialized(HelperPlaintext(events[i].index))

\* the path of the main script in the sandbox
MainScriptPath == PathJoin(loc.temp_dir, loc.script_name)

\* C28: every helper is written before the main script and none after it;
\* the file the interpreter is run on holds the main script's text, also when
\* a helper has the name of the main script.
C28_HelpersBeforeMain ==
    /\ Cardinality(Writes("main")) <= 1
    /\ \A i \in Writes("helper") : \A j \in Writes("main") : i < j
    /\ Writes("main") # {} => pc \notin {"helpers", "mkdtemp"}
    /\ \A j \in Spawns("python") :
          \E m \in Writes("main") :
              /\ m = j - 1
              /\ events[m].path = events[j].text
              /\ events[m].content = loc.script_content
    /\ pc \in {"run", "normalize"} =>
          FileAt(fs, MainScriptPath) =
              {[path |-> MainScriptPath, content |-> [chars |-> loc.script_content]]}

\* a helper was written under the name of the main script, the main script
\* was written over it, and the interpreter ran on the main script's text
C28_Witness ==
    /\ pc = "normalize"
    /\ \E i \in Writes("helper") :
          /\ events[i].path = MainScriptPath
          /\ events[i].content # loc.script_content
    /\ Spawns("python") # {}
    /\ FileAt(fs, MainScriptPath) =
          {[path |-> MainScriptPath, content |-> [chars |-> loc.script_content]]}

\* the steps of the interpreter path
InterpreterSteps == {"prepare", "mkdtemp", "helpers", "run", "normalize", "cleanup"}

\* C29: the inline shell path is taken for the type 'powershell' and for no
\* other; on it no sandbox is created, no helper is decrypted or written, and
\* neither the arguments nor the scriptName reach the command that is run;
\* every other type, absent or unrecognized ones included, takes the
\* interpreter path.
C29_OnlyPowershellIsInline ==
    /\ pc = "powershell" => loc.script_type = "powershell"
    /\ pc \in InterpreterSteps => loc.script_type # "powershell"
    /\ Spawns("powershell") # {} => loc.script_type = "powershell"
    /\ Spawns("python") # {} => loc.script_type # "powershell"
    /\ loc.script_type = "powershell" =>
          /\ loc.temp_dir = <<>>
          /\ fs = InitFs
          /\ EventsOf("mkdtemp") = {}
          /\ EventsOf("write") = {}
          /\ EventsOf("rmtree") = {}
          /\ \A i \in EventsOf("decrypt") : events[i].of = "main"
          /\ \A i \in EventsOf("spawn") :
                /\ events[i].args = <<>>
                /\ events[i].cwd = AgentDir
                /\ events[i].text = DecodeUtf8(loc.decrypted).val

\* an envelope of type 'bash' with a helper: the helper and the main script
\* were written and the interpreter was run
C29_Witness ==
    /\ Answered
    /\ loc.script_type = "bash"
    /\ Writes("helper") # {}
    /\ Writes("main") # {}
    /\ Spawns("python") # {}
    /\ Spawns("powershell") = {}

\* the values the index took: each greater than the one before, none greater
\* than the number of lines
IndexAdvances ==
    LET t == <<0>> \o fnRes.trail
    IN  /\ \A k \in 1..(Len(t) - 1) : t[k] < t[k + 1]
        /\ \A k \in 1..Len(t) : t[k] <= Len(SplitLines(fnArg))

\* the lines of the output are the lines of the input without some of the
\* blank lines that follow a line ending in a backslash, in the same order, a
\* line ending in a backslash possibly without its trailing white space
OnlyBlanksDropped ==
    LET lines == SplitLines(fnArg)
        out == SplitLines(fnRes.out)
        droppable == {k \in 1..Len(lines) : FollowsContinued(lines, k)}
    IN  \E D \in SUBSET droppable :
            LET kept == SelectSeq([k \in 1..Len(lines) |-> k], LAMBDA k : k \notin D)
            IN  /\ Len(out) = Len(kept)
                /\ \A j \in 1..Len(kept) :
                      \/ out[j] = lines[kept[j]]
                      \/ /\ EndsWithBackslash(lines[kept[j]])
                         /\ out[j] = RStrip(lines[kept[j]])

====
